---- MODULE Spec2Model ----
(***************************************************************************)
(* Verification model of the Kilat-Tutor orchestration core:               *)
(*   - DistributedRateLimiter  (src/lib/ai/distributed-rate-limiter.ts)    *)
(*   - MultiAgentOrchestrator  (src/lib/orchestrator/multi-agent.ts)       *)
(*   - persistent cache        (src/lib/cache/persistent-cache.ts)         *)
(*                                                                         *)
(* Time is counted in ticks.  Every await of the source is a separate      *)
(* step, so that calls of several callers interleave exactly where the     *)
(* JavaScript event loop and the shared store allow it.                    *)
(***************************************************************************)
EXTENDS Integers, Sequences, FiniteSets, TLC

(***************************************************************************)
(* Bounds of the model.  The provider limits of PROVIDER_LIMITS and the    *)
(* floors of the per-process budgets (5 and 2 in the source, lines 215 and *)
(* 222) are scaled down together; the relations that hold of every         *)
(* provider of the source are kept: the per-process budgets are below the  *)
(* shared budgets, and the TTL of the concurrency key is longer than a     *)
(* window.                                                                 *)
(***************************************************************************)
MaxRPM == 3
LocalMinRPM == 2
MaxConcurrent == 2
LocalMinConcurrent == 1
WindowTicks == 1
ConcurrentTTLTicks == 2
MaxTime == 3
MaxOverlap == 2

Max(a, b) == IF a >= b THEN a ELSE b

(***************************************************************************)
(* Callers are independent async call chains; each lives in one worker     *)
(* process.  The processes share the store, each has its own fallback      *)
(* counters (the singleton distributedRateLimiter of that process).  The    *)
(* callers modelled are three requests served by one process, so that the  *)
(* fallback counters of a process meet more callers than MaxConcurrent.    *)
(***************************************************************************)
Callers == {"c1", "c2", "c3"}
Processes == {"p1"}
ProcOf(c) == "p1"

VARIABLES
    now,              \* Date.now(), in ticks
    redisUp,          \* whether the shared store answers
    kWindow,          \* key ratelimit:{provider}:window
    kCount,           \* key ratelimit:{provider}:count
    kConcurrent,      \* key ratelimit:{provider}:concurrent
    localCounts,      \* per process: this.localCounts.get(provider)
    localConcurrent,  \* per process: this.localConcurrent.get(provider)
    call,             \* per caller: position and locals of its current call
    holding,          \* per caller: admitted and releaseSlot not yet called
    admWin,           \* history: window start the shared admissions below belong to
    admCnt            \* history: calls admitted against the shared window admWin

rlVars == <<now, redisUp, kWindow, kCount, kConcurrent, localCounts,
            localConcurrent, call, holding, admWin, admCnt>>

(***************************************************************************)
(* State of one run of MultiAgentOrchestrator.executeParallel              *)
(***************************************************************************)
VARIABLES
    plan,        \* the TaskPlan: subTasks (ids in declaration order), parallelGroups
    xpc,         \* position of executeParallel
    gi,          \* the loop index i (1-based)
    agent,       \* per (group, task): position of its executeAgent call
    slot,        \* per (group, task): how the Promise.race settled, and its value
    ctxLen,      \* per (group, task): length of previousResults when it was read
    allResults,  \* the list allResults
    inverted     \* history: a task settled before an earlier-declared one of its group

exVars == <<plan, xpc, gi, agent, slot, ctxLen, allResults, inverted>>

(***************************************************************************)
(* State of one request through orchestrate or executeFast                 *)
(***************************************************************************)
VARIABLES
    req,         \* the request: entry point, what each cache tier holds for it,
                 \* and the progress callback
    opc,         \* position of the request
    consulted,   \* history: the cache tiers consulted, in order
    genCalls,    \* history: calls made to the Generation Service (aiMandor.call)
    decomposed,  \* history: decompose was called
    executed,    \* history: executeParallel was called
    ret,         \* the OrchestratorResult returned
    written      \* history: the cache tiers the request wrote to

orVars == <<req, opc, consulted, genCalls, decomposed, executed, ret, written>>

(***************************************************************************)
(* State of one orchestrate request after every cache tier has missed:     *)
(* decompose, executeParallel, verifyChain, merge, the junk filter, the    *)
(* final verifier and the return                                           *)
(***************************************************************************)
VARIABLES
    ppc,             \* position of orchestrate between lines 284 and 394
    workerResults,   \* what executeParallel returned (line 293)
    verifiedResults, \* what verifyChain returned (line 297)
    merged,          \* what merge computed: allFiles and conflicts
    cfg,             \* the orchestrator's options: enableLogging
    taskPlan,        \* what decompose returned (line 286)
    verdicts,        \* history: per verified result, how its verification went
    called,          \* history: the kinds of calls made to the Generation Service
    cacheSet,        \* history: responseCache.set was called (line 353)
    finalResult      \* what orchestrate returned

plVars == <<ppc, workerResults, verifiedResults, merged, cfg, taskPlan,
            verdicts, called, cacheSet, finalResult>>

(***************************************************************************)
(* Units of work that call the Generation Service: the tasks of one group  *)
(* of executeParallel, and one executeFast request past its cache chain    *)
(***************************************************************************)
VARIABLES
    unit             \* per unit: position, what the quota collaborator
                     \* reported, the race with the 60 s timer, the counts of
                     \* admissions, releases and calls, and the result

unVars == <<unit>>

(***************************************************************************)
(* The durable tier: the job records of the store and one lookup           *)
(***************************************************************************)
VARIABLES
    clock,           \* the time, in hours
    zone,            \* the time zone of the process
    jobs,            \* the rows of job_queue
    lookup           \* the call of findCachedResponse: its moment and its result

dcVars == <<clock, zone, jobs, lookup>>

\* the arguments and the value of one evaluation of jaccardSimilarity
VARIABLES argA, argB, jaccard
jcVars == <<argA, argB, jaccard>>

\* one run of the junk filter: the files it is given and the files it leaves
VARIABLES dirty, cleaned
cuVars == <<dirty, cleaned>>

\* waitForSlot: position of the call, Date.now(), the locals startTime,
\* result (polled) and waitTime, the parameter timeoutMs, the time the pending timer
\* is due, and (history) the polls that returned allowed
VARIABLES wpc, wnow, startTime, timeoutMs, polled, waitTime, wake, admissions
wsVars == <<wpc, wnow, startTime, timeoutMs, polled, waitTime, wake, admissions>>

\* history: the callers that were admitted and crashed before releasing
VARIABLES crashed
hlVars == <<crashed>>

\* the singleton orchestrator under two requests: its fields currentUserId and
\* _currentTraceId, the trace logger's map activeTraces with the number of steps
\* of each trace, each request's position and locals, and (history) the
\* Generation Service calls made and the endTrace calls that found their trace
VARIABLES currentUserId, currentTraceId, activeTraces, steps, sreq, aiCalls, endings
trVars == <<currentUserId, currentTraceId, activeTraces, steps, sreq, aiCalls, endings>>

auxVars == <<jcVars, cuVars, wsVars, hlVars, trVars>>

vars == <<rlVars, exVars, orVars, plVars, unVars, dcVars, auxVars>>

(***************************************************************************)
(* The shared store: a key is absent, or holds an integer and possibly an  *)
(* expiry time (exp = 0: no expiry).                                       *)
(***************************************************************************)
Absent == [has |-> FALSE, v |-> 0, exp |-> 0]
NoValue == [has |-> FALSE, v |-> 0]

\* redis.get: null for an absent key
RedisGet(k) == [has |-> k.has, v |-> k.v]
\* redis.set(key, v, {ex})
RedisSetEx(v, ttl) == [has |-> TRUE, v |-> v, exp |-> now + ttl]
\* redis.incr: an absent key counts as 0 and is created without expiry
RedisIncr(k) == IF k.has THEN [k EXCEPT !.v = k.v + 1]
                ELSE [has |-> TRUE, v |-> 1, exp |-> 0]
\* redis.decr
RedisDecr(k) == IF k.has THEN [k EXCEPT !.v = k.v - 1]
                ELSE [has |-> TRUE, v |-> 0 - 1, exp |-> 0]
\* (mutant: the TTL is never set)
RedisExpireLost(k, ttl) == k
\* redis.expire(key, ttl): no effect on an absent key
RedisExpire(k, ttl) == IF k.has THEN [k EXCEPT !.exp = now + ttl] ELSE k
\* the store drops a key when its expiry time is reached
ExpireAt(k, t) == IF k.has /\ k.exp # 0 /\ k.exp <= t THEN Absent ELSE k

\* JavaScript: x || 0
OrZero(r) == IF r.has THEN r.v ELSE 0
\* JavaScript: !x   (null or 0)
Falsy(r) == ~r.has \/ r.v = 0

NoRes == [allowed |-> FALSE, reason |-> "none", via |-> "none"]
IdleCall == [pc |-> "idle", pend |-> {}, w |-> NoValue, n |-> NoValue,
             k |-> NoValue, tcall |-> 0, tnew |-> 0, ret |-> NoRes]

RLInit ==
    /\ now = 1
    /\ redisUp \in BOOLEAN
    /\ kWindow = Absent
    /\ kCount = Absent
    /\ kConcurrent = Absent
    /\ localCounts = [p \in Processes |-> [has |-> FALSE, count |-> 0, windowStart |-> 0]]
    /\ localConcurrent = [p \in Processes |-> 0]
    /\ call = [c \in Callers |-> IdleCall]
    /\ holding = [c \in Callers |-> 0]
    /\ admWin = 0
    /\ admCnt = 0

\* the rate limiter at rest, the store reachable
RLIdle == RLInit /\ redisUp

NoPlan == [subTasks |-> <<>>, parallelGroups |-> <<>>, onProgress |-> "none"]

\* no executeParallel run
ExIdle ==
    /\ plan = NoPlan
    /\ xpc = "idle"
    /\ gi = 1
    /\ agent = <<>>
    /\ slot = <<>>
    /\ ctxLen = <<>>
    /\ allResults = <<>>
    /\ inverted = FALSE

NoRet == [success |-> FALSE, source |-> "none"]

\* no request
OrIdle ==
    /\ req = [path |-> "none", durable |-> "none", fast |-> "miss",
              semantic |-> "miss", onProgress |-> "none"]
    /\ opc = "idle"
    /\ consulted = <<>>
    /\ genCalls = 0
    /\ decomposed = FALSE
    /\ executed = FALSE
    /\ ret = NoRet
    /\ written = {}

\* A path is the list of the pieces of its name; 'output.md' is the file that
\* merge creates itself (line 1657)
OutputMd == <<"output.md">>

Paths == { <<"src/", "App.tsx">>, <<"Prisma/", "seed.ts">>, OutputMd }

\* the order of Object.entries over a Record keyed by path
PathOrder == << <<"src/", "App.tsx">>, <<"Prisma/", "seed.ts">>, OutputMd >>

\* file contents; "" is the empty file, Combined the text that lines 1652-1655
\* join from the outputs of the successful results
Combined == "## AGENT output"

Contents == {"", "a", "b"}

\* a path that is no key of a Record
NoFile == "<undefined>"

EmptyFiles == [p \in Paths |-> NoFile]

Keys(files) == {p \in Paths : files[p] # NoFile}

NoMerge == [files |-> EmptyFiles, conflicts |-> <<>>]

\* orchestrate has not returned
NoFinal == [success |-> FALSE, summary |-> "none", files |-> EmptyFiles,
            agentResults |-> <<>>]

\* no request in the pipeline
PlIdle ==
    /\ ppc = "idle"
    /\ workerResults = <<>>
    /\ verifiedResults = <<>>
    /\ merged = NoMerge
    /\ cfg = [enableLogging |-> TRUE]
    /\ taskPlan = [subTasks |-> <<>>, parallelGroups |-> <<>>]
    /\ verdicts = <<>>
    /\ called = {}
    /\ cacheSet = FALSE
    /\ finalResult = NoFinal

\* The units of work: two tasks of one group, and the single unit of
\* executeFast (its taskId, line 812)
Units == {"t1", "t2", "fast-single"}

IsTask(u) == u # "fast-single"

NoUnitResult == [taskId |-> "none", success |-> FALSE, output |-> <<"", "none">>,
                 files |-> "none"]

IdleUnit == [pc |-> "idle", quota |-> "unasked", cost |-> "unasked",
             race |-> "none", admitted |-> 0, released |-> 0, calls |-> 0,
             res |-> NoUnitResult]

\* no unit of work
UnIdle == unit = [u \in Units |-> IdleUnit]

NoJob == [id |-> 0, completedAt |-> 0, status |-> "none", tokens |-> {},
          hasOutput |-> FALSE, origin |-> "none"]

NoLookup == [state |-> "none", at |-> 0, prompt |-> {}, rows |-> <<>>, hit |-> NoJob]

\* an empty store and no lookup
DcIdle ==
    /\ clock = 0
    /\ zone = "UTC"
    /\ jobs = {}
    /\ lookup = NoLookup

NoSimilarity == <<0, 0>>

\* no evaluation of jaccardSimilarity
JcIdle == argA = <<>> /\ argB = <<>> /\ jaccard = NoSimilarity

\* no run of the junk filter
CuIdle == dirty = <<>> /\ cleaned = <<>>

NotPolled == [allowed |-> FALSE, resetMs |-> 0]

\* no call of waitForSlot
WsIdle ==
    /\ wpc = "idle"
    /\ wnow = 0
    /\ startTime = 0
    /\ timeoutMs = 0
    /\ polled = NotPolled
    /\ waitTime = 0
    /\ wake = 0
    /\ admissions = 0

\* no caller has crashed
HlIdle == crashed = {}

\* the two requests and the user of each
SharedRequests == {"r1", "r2"}

UserOf(r) == IF r = "r1" THEN "u1" ELSE "u2"

\* crypto.randomUUID(): each request's trace has an id of its own
TraceOf(r) == IF r = "r1" THEN "t1" ELSE "t2"

TraceIds == {TraceOf(r) : r \in SharedRequests}

\* _currentTraceId before any request stored one
NoTrace == "undefined"

\* a request that was not made yet
NotCalled == [pc |-> "idle", kind |-> "none", ending |-> NoTrace, found |-> FALSE, status |-> "none"]

\* a fresh orchestrator and an empty trace logger
TrIdle ==
    /\ currentUserId = "anon"
    /\ currentTraceId = NoTrace
    /\ activeTraces = {}
    /\ steps = [t \in TraceIds |-> 0]
    /\ sreq = [r \in SharedRequests |-> NotCalled]
    /\ aiCalls = {}
    /\ endings = {}

AuxIdle == JcIdle /\ CuIdle /\ WsIdle /\ HlIdle /\ TrIdle

(***************************************************************************)
(* checkLimit                                                              *)
(***************************************************************************)

\* line 155 / line 209: the window is unset or has elapsed
WindowExpired(w, t) == Falsy(w) \/ t - w.v >= WindowTicks

\* (mutant: the budget test is off by one)
RpmExhaustedOffByOne(n) == n > MaxRPM

\* line 168: the request budget of the window is used up
RpmExhausted(n) == n >= MaxRPM

\* line 174: the concurrency budget is used up
ConcurrencyExhausted(k) == k >= MaxConcurrent

\* lines 215 and 222: budgets of the per-process fallback
InstanceAdjustedLimit == Max(LocalMinRPM, MaxRPM \div 5)
InstanceAdjustedConcurrent == Max(LocalMinConcurrent, MaxConcurrent \div 3)

\* history: one more call admitted against the shared window started at ws
Admit(ws) ==
    /\ admWin' = ws
    /\ admCnt' = IF admWin = ws THEN admCnt + 1 ELSE 1

\* the result r of checkLimit is about to be returned to caller c
FinishCheck(c, r) ==
    call' = [call EXCEPT ![c] =
               [IdleCall EXCEPT !.pc = "chk_ret", !.ret = r]]

Allowed(why, how) == [allowed |-> TRUE, reason |-> why, via |-> how]
Denied(why, how) == [allowed |-> FALSE, reason |-> why, via |-> how]

\* the caller receives the result; an admitted caller now holds a slot
Return(c) ==
    /\ call[c].pc = "chk_ret"
    /\ holding' = [holding EXCEPT ![c] = IF call[c].ret.allowed THEN 1 ELSE 0]
    /\ call' = [call EXCEPT ![c] = IdleCall]
    /\ UNCHANGED <<exVars, orVars, plVars, unVars, dcVars, auxVars, now, redisUp, kWindow, kCount, kConcurrent, localCounts,
                   localConcurrent, admWin, admCnt>>

\* checkLimit, lines 110-118: capture now, issue the three reads
StartCheck(c) ==
    /\ call[c].pc = "idle"
    /\ holding[c] = 0
    /\ call' = [call EXCEPT ![c] =
                  [IdleCall EXCEPT !.pc = "chk_read",
                                   !.pend = {"window", "count", "concurrent"},
                                   !.tcall = now]]
    /\ UNCHANGED <<exVars, orVars, plVars, unVars, dcVars, auxVars, now, redisUp, kWindow, kCount, kConcurrent, localCounts,
                   localConcurrent, holding, admWin, admCnt>>

\* checkRedisLimit, lines 152-176: with the three answers rd the caller
\* starts a new window, is denied, or goes on to increment the counters
CheckDecide(c, rd) ==
    IF WindowExpired(rd.w, now)
      THEN call' = [call EXCEPT ![c] =
                      [rd EXCEPT !.pc = "chk_new", !.pend = {"window", "count"},
                                 !.tnew = now, !.n = NoValue, !.k = NoValue]]
    ELSE IF RpmExhausted(OrZero(rd.n))
      THEN FinishCheck(c, Denied("rpm", "redis"))
    ELSE IF ConcurrencyExhausted(OrZero(rd.k))
      THEN FinishCheck(c, Denied("concurrent", "redis"))
    ELSE call' = [call EXCEPT ![c] =
                    [rd EXCEPT !.pc = "chk_incr", !.pend = {"count", "concurrent"},
                               !.n = NoValue, !.k = NoValue]]

\* checkRedisLimit, lines 143-147: one of the three reads is answered; the
\* last answer resumes the caller, which decides on what it has read
CheckRead(c, key) ==
    /\ call[c].pc = "chk_read"
    /\ key \in call[c].pend
    /\ redisUp
    /\ LET rd == [call[c] EXCEPT
                    !.pend = call[c].pend \ {key},
                    !.w = IF key = "window" THEN RedisGet(kWindow) ELSE call[c].w,
                    !.n = IF key = "count" THEN RedisGet(kCount) ELSE call[c].n,
                    !.k = IF key = "concurrent" THEN RedisGet(kConcurrent) ELSE call[c].k]
       IN  IF rd.pend # {}
             THEN call' = [call EXCEPT ![c] = rd]
             ELSE CheckDecide(c, rd)
    /\ UNCHANGED <<exVars, orVars, plVars, unVars, dcVars, auxVars, now, redisUp, kWindow, kCount, kConcurrent, localCounts,
                   localConcurrent, holding, admWin, admCnt>>

\* checkRedisLimit, lines 143-147, in the schedule where the store serves the
\* three reads of the call back to back
CheckReadAll(c) ==
    /\ call[c].pc = "chk_read"
    /\ call[c].pend = {"window", "count", "concurrent"}
    /\ redisUp
    /\ CheckDecide(c, [call[c] EXCEPT !.pend = {},
                                      !.w = RedisGet(kWindow),
                                      !.n = RedisGet(kCount),
                                      !.k = RedisGet(kConcurrent)])
    /\ UNCHANGED <<exVars, orVars, plVars, unVars, dcVars, auxVars, now, redisUp, kWindow, kCount, kConcurrent, localCounts,
                   localConcurrent, holding, admWin, admCnt>>

\* checkRedisLimit, lines 156-162: one of the two sets of a new window is
\* executed; after the second the call returns allowed
CheckNewWindow(c, key) ==
    /\ call[c].pc = "chk_new"
    /\ key \in call[c].pend
    /\ redisUp
    /\ kWindow' = IF key = "window" THEN RedisSetEx(call[c].tnew, WindowTicks) ELSE kWindow
    /\ kCount' = IF key = "count" THEN RedisSetEx(1, WindowTicks) ELSE kCount
    /\ IF call[c].pend = {key}
         THEN /\ FinishCheck(c, Allowed("new", "redis"))
              /\ Admit(call[c].tnew)
         ELSE /\ call' = [call EXCEPT ![c].pend = call[c].pend \ {key}]
              /\ UNCHANGED <<admWin, admCnt>>
    /\ UNCHANGED <<exVars, orVars, plVars, unVars, dcVars, auxVars, now, redisUp, kConcurrent, localCounts, localConcurrent, holding>>

\* checkRedisLimit, lines 181-184: one of the two increments is executed
CheckIncr(c, key) ==
    /\ call[c].pc = "chk_incr"
    /\ key \in call[c].pend
    /\ redisUp
    /\ kCount' = IF key = "count" THEN RedisIncr(kCount) ELSE kCount
    /\ kConcurrent' = IF key = "concurrent" THEN RedisIncr(kConcurrent) ELSE kConcurrent
    /\ call' = [call EXCEPT ![c] =
                  IF call[c].pend = {key}
                    THEN [call[c] EXCEPT !.pc = "chk_expire", !.pend = {}]
                    ELSE [call[c] EXCEPT !.pend = call[c].pend \ {key}]]
    /\ UNCHANGED <<exVars, orVars, plVars, unVars, dcVars, auxVars, now, redisUp, kWindow, localCounts, localConcurrent,
                   holding, admWin, admCnt>>

\* checkRedisLimit, lines 186-192: the safety TTL is set, the call returns allowed
CheckExpire(c) ==
    /\ call[c].pc = "chk_expire"
    /\ redisUp
    /\ kConcurrent' = RedisExpire(kConcurrent, ConcurrentTTLTicks)
    /\ FinishCheck(c, Allowed("ok", "redis"))
    /\ Admit(call[c].w.v)
    /\ UNCHANGED <<exVars, orVars, plVars, unVars, dcVars, auxVars, now, redisUp, kWindow, kCount, localCounts, localConcurrent, holding>>

\* checkLocalLimit, lines 199-235, for process p at the captured time t:
\* the result and the new fallback counters
LocalResult(p, t) ==
    LET state == localCounts[p]
        concurrent == localConcurrent[p]
    IN  IF ~state.has \/ t - state.windowStart >= WindowTicks
          THEN Allowed("new", "local")
        ELSE IF state.count >= InstanceAdjustedLimit
          THEN Denied("rpm", "local")
        ELSE IF concurrent >= InstanceAdjustedConcurrent
          THEN Denied("concurrent", "local")
        ELSE Allowed("ok", "local")

CheckLocalLimit(c) ==
    LET p == ProcOf(c)
        t == call[c].tcall
        r == LocalResult(p, t)
    IN  /\ localCounts' =
             IF r.reason = "new"
               THEN [localCounts EXCEPT ![p] = [has |-> TRUE, count |-> 1, windowStart |-> t]]
             ELSE IF r.allowed
               THEN [localCounts EXCEPT ![p].count = localCounts[p].count + 1]
             ELSE localCounts
        /\ localConcurrent' =
             IF r.allowed /\ r.reason = "ok"
               THEN [localConcurrent EXCEPT ![p] = localConcurrent[p] + 1]
               ELSE localConcurrent
        /\ FinishCheck(c, r)

\* checkLimit, lines 119-125: a store operation of the call throws; the
\* operations issued with it hit the same outage; fall back to the local check
CheckFallback(c) ==
    /\ call[c].pc \in {"chk_read", "chk_new", "chk_incr", "chk_expire"}
    /\ ~redisUp
    /\ CheckLocalLimit(c)
    /\ UNCHANGED <<exVars, orVars, plVars, unVars, dcVars, auxVars, now, redisUp, kWindow, kCount, kConcurrent, holding, admWin, admCnt>>

(***************************************************************************)
(* releaseSlot                                                             *)
(***************************************************************************)

\* line 250: current && current > 0
ShouldDecrement(cur) == cur.has /\ cur.v # 0 /\ cur.v > 0

\* line 252: current !== null && current <= 0
ShouldDelete(cur) == cur.has /\ cur.v <= 0

\* releaseSlot, lines 262-268: the fallback counter is decremented, never
\* below zero; processQueue returns at once (nothing ever enters the queue)
ReleaseLocal(c) ==
    /\ localConcurrent' =
         [localConcurrent EXCEPT ![ProcOf(c)] =
            IF localConcurrent[ProcOf(c)] > 0
              THEN localConcurrent[ProcOf(c)] - 1
              ELSE localConcurrent[ProcOf(c)]]
    /\ call' = [call EXCEPT ![c] = IdleCall]

\* releaseSlot, line 241, called by a caller that was admitted
StartRelease(c) ==
    /\ call[c].pc = "idle"
    /\ holding[c] = 1
    /\ holding' = [holding EXCEPT ![c] = 0]
    /\ call' = [call EXCEPT ![c] = [IdleCall EXCEPT !.pc = "rel_read"]]
    /\ UNCHANGED <<exVars, orVars, plVars, unVars, dcVars, auxVars, now, redisUp, kWindow, kCount, kConcurrent, localCounts,
                   localConcurrent, admWin, admCnt>>

\* releaseSlot, lines 249-255: the counter is read and the caller decides
ReleaseRead(c) ==
    /\ call[c].pc = "rel_read"
    /\ redisUp
    /\ LET current == RedisGet(kConcurrent)
       IN  IF ShouldDecrement(current)
             THEN /\ call' = [call EXCEPT ![c].pc = "rel_decr"]
                  /\ UNCHANGED localConcurrent
           ELSE IF ShouldDelete(current)
             THEN /\ call' = [call EXCEPT ![c].pc = "rel_del"]
                  /\ UNCHANGED localConcurrent
           ELSE ReleaseLocal(c)
    /\ UNCHANGED <<exVars, orVars, plVars, unVars, dcVars, auxVars, now, redisUp, kWindow, kCount, kConcurrent, localCounts,
                   holding, admWin, admCnt>>

\* releaseSlot, line 251: redis.decr
ReleaseDecr(c) ==
    /\ call[c].pc = "rel_decr"
    /\ redisUp
    /\ kConcurrent' = RedisDecr(kConcurrent)
    /\ ReleaseLocal(c)
    /\ UNCHANGED <<exVars, orVars, plVars, unVars, dcVars, auxVars, now, redisUp, kWindow, kCount, localCounts, holding,
                   admWin, admCnt>>

\* releaseSlot, line 254: redis.del
ReleaseDel(c) ==
    /\ call[c].pc = "rel_del"
    /\ redisUp
    /\ kConcurrent' = Absent
    /\ ReleaseLocal(c)
    /\ UNCHANGED <<exVars, orVars, plVars, unVars, dcVars, auxVars, now, redisUp, kWindow, kCount, localCounts, holding,
                   admWin, admCnt>>

\* releaseSlot, lines 256-258: a store error is ignored
ReleaseIgnoreError(c) ==
    /\ call[c].pc \in {"rel_read", "rel_decr", "rel_del"}
    /\ ~redisUp
    /\ ReleaseLocal(c)
    /\ UNCHANGED <<exVars, orVars, plVars, unVars, dcVars, auxVars, now, redisUp, kWindow, kCount, kConcurrent, localCounts,
                   holding, admWin, admCnt>>

(***************************************************************************)
(* Environment: the clock and the reachability of the store                *)
(***************************************************************************)
Tick ==
    /\ now < MaxTime
    /\ now' = now + 1
    /\ kWindow' = ExpireAt(kWindow, now + 1)
    /\ kCount' = ExpireAt(kCount, now + 1)
    /\ kConcurrent' = ExpireAt(kConcurrent, now + 1)
    /\ UNCHANGED <<exVars, orVars, plVars, unVars, dcVars, auxVars, redisUp, localCounts, localConcurrent, call, holding,
                   admWin, admCnt>>

\* no call is in progress
Quiet == \A c \in Callers : call[c].pc = "idle"

\* the steps of a call after its reads, while the store answers
StoreStep(c) ==
    \/ \E key \in {"window", "count"} : CheckNewWindow(c, key)
    \/ \E key \in {"count", "concurrent"} : CheckIncr(c, key)
    \/ CheckExpire(c)
    \/ Return(c)
    \/ ReleaseRead(c)
    \/ ReleaseDecr(c)
    \/ ReleaseDel(c)

\* the steps of a call that meets an outage of the store
OutageStep(c) ==
    \/ CheckFallback(c)
    \/ ReleaseIgnoreError(c)

\* the calls in progress
InProgress == {c \in Callers : call[c].pc # "idle"}

(***************************************************************************)
(* SpecRL: the calls of up to MaxOverlap callers overlap and their store   *)
(* operations interleave.  To keep the state space finite and small, the   *)
(* schedules explored are those where the three reads that open a call are *)
(* served back to back; the writes interleave freely.  Every behaviour of  *)
(* SpecRL is a behaviour of the program.                                   *)
(***************************************************************************)
NextRL ==
    \/ Cardinality(InProgress) < MaxOverlap /\ \E c \in Callers : StartCheck(c)
    \/ Cardinality(InProgress) < MaxOverlap /\ \E c \in Callers : StartRelease(c)
    \/ \E c \in Callers : CheckReadAll(c)
    \/ \E c \in Callers : StoreStep(c)
    \/ \E c \in Callers : OutageStep(c)
    \/ Tick

InitRL == RLInit /\ ExIdle /\ OrIdle /\ PlIdle /\ UnIdle /\ DcIdle /\ AuxIdle

SpecRL == InitRL /\ [][NextRL]_vars

(***************************************************************************)
(* SpecRLSeq: every call returns before the next one is made (one caller   *)
(* at a time); the reads of a call are served in any order.                *)
(***************************************************************************)
NextRLSeq ==
    \/ Quiet /\ \E c \in Callers : StartCheck(c)
    \/ Quiet /\ \E c \in Callers : StartRelease(c)
    \/ \E c \in Callers, key \in {"window", "count", "concurrent"} : CheckRead(c, key)
    \/ \E c \in Callers : StoreStep(c)
    \/ \E c \in Callers : OutageStep(c)
    \/ Tick

SpecRLSeq == InitRL /\ [][NextRLSeq]_vars

(***************************************************************************)
(* Properties of the rate limiter                                          *)
(***************************************************************************)

\* calls admitted and not yet released
HeldSlots == Cardinality({c \in Callers : holding[c] = 1})

\* the stored window is unset or has elapsed
StoreWindowElapsed == ~kWindow.has \/ now - kWindow.v >= WindowTicks

\* C1: with one call at a time, a window never admits more than MaxRPM calls
\* (the call after the MaxRPM-th admission of a window is denied), in the
\* shared store and in the per-process fallback alike; a call that finds the
\* window unset or elapsed is admitted and starts a fresh window whose count
\* is 1.
C1_WindowBudget ==
    /\ [](/\ admCnt <= MaxRPM
          /\ \A p \in Processes : localCounts[p].count <= MaxRPM
          /\ \A c \in Callers :
               (call[c].pc = "chk_ret" /\ call[c].ret.reason = "new")
                 => /\ call[c].ret.allowed
                    /\ call[c].ret.via = "redis"
                         => admCnt = 1 /\ (kCount.has => kCount.v = 1)
                    /\ call[c].ret.via = "local"
                         => localCounts[ProcOf(c)].count = 1)
    /\ [][\A c \in Callers :
            /\ (/\ call[c].pc = "chk_read"
                /\ call'[c].pc \notin {"chk_read", "chk_new"}
                /\ redisUp)
                 => ~StoreWindowElapsed
            /\ (call[c].pc = "chk_read" /\ call'[c].pc = "chk_ret" /\ ~redisUp
                /\ (~localCounts[ProcOf(c)].has
                    \/ call[c].tcall - localCounts[ProcOf(c)].windowStart >= WindowTicks))
                 => call'[c].ret = Allowed("new", "local")]_vars

\* C1 witness: the shared window has admitted MaxRPM calls and the next call
\* is being denied for the request budget
C1_Witness ==
    \E c \in Callers :
        /\ call[c].pc = "chk_ret"
        /\ call[c].ret = Denied("rpm", "redis")
        /\ admCnt = MaxRPM
        /\ kWindow.has /\ kWindow.v = admWin

\* C2 (as claimed): with one call at a time, a checkLimit that returns while
\* MaxConcurrent admitted calls are unreleased returns allowed = false
C2_Claim ==
    \A c \in Callers :
        (call[c].pc = "chk_ret" /\ call[c].ret.via = "redis" /\ HeldSlots >= MaxConcurrent)
            => ~call[c].ret.allowed

\* C3 (as claimed): the concurrency counter of the store and of every process
\* is never negative
C3_Claim ==
    /\ kConcurrent.has => kConcurrent.v >= 0
    /\ \A p \in Processes : localConcurrent[p] >= 0

\* C4 (as claimed): under overlapping calls, the calls admitted against one
\* window of the shared store never exceed MaxRPM
C4_Claim == redisUp => admCnt <= MaxRPM

\* C5 (as claimed): under overlapping calls, the calls admitted and not yet
\* released never exceed MaxConcurrent
C5_Claim == redisUp => HeldSlots <= MaxConcurrent

\* the calls of process p admitted and not yet released
InFlight(p) == Cardinality({c \in Callers : ProcOf(c) = p /\ holding[c] = 1})

\* C27 (as claimed): while the store does not answer, every decision of
\* checkLimit comes from the per-process counters, whose budgets do not exceed
\* MaxRPM and MaxConcurrent, and a process never admits more than MaxRPM calls
\* in one window nor has more than MaxConcurrent admitted calls unreleased
C27_Claim ==
    ~redisUp =>
        /\ \A c \in Callers : call[c].pc = "chk_ret" => call[c].ret.via = "local"
        /\ InstanceAdjustedLimit <= MaxRPM
        /\ InstanceAdjustedConcurrent <= MaxConcurrent
        /\ \A p \in Processes :
              /\ localCounts[p].count <= MaxRPM
              /\ InFlight(p) <= MaxConcurrent

\* C37 (as claimed): between calls, the concurrency counter in use (the key
\* of the store while it answers, the counter of the process while it does
\* not) equals the number of calls admitted and not yet released
C37_Claim ==
    Quiet =>
        IF redisUp
        THEN OrZero(RedisGet(kConcurrent)) = HeldSlots
        ELSE \A p \in Processes : localConcurrent[p] = InFlight(p)

(***************************************************************************)
(* SpecHeal: callers that crash.  A caller that was admitted may crash      *)
(* before it releases; its slot stays counted in the store.  Calls are     *)
(* made one at a time until MaxTime, the three reads of a call served      *)
(* back to back; the clock is then followed for another                    *)
(* ConcurrentTTLTicks, the time the last TTL set can take to run out.      *)
(***************************************************************************)
HealRest == <<exVars, orVars, plVars, unVars, dcVars, jcVars, cuVars, wsVars, trVars>>

\* a caller holding a slot dies; nothing is released
Crash(c) ==
    /\ call[c].pc = "idle"
    /\ holding[c] = 1
    /\ holding' = [holding EXCEPT ![c] = 0]
    /\ crashed' = crashed \cup {c}
    /\ UNCHANGED <<HealRest, now, redisUp, kWindow, kCount, kConcurrent, localCounts,
                   localConcurrent, call, admWin, admCnt>>

\* the clock after the last call was made
Drain ==
    /\ now >= MaxTime
    /\ now < MaxTime + ConcurrentTTLTicks
    /\ Quiet
    /\ now' = now + 1
    /\ kWindow' = ExpireAt(kWindow, now + 1)
    /\ kCount' = ExpireAt(kCount, now + 1)
    /\ kConcurrent' = ExpireAt(kConcurrent, now + 1)
    /\ UNCHANGED <<HealRest, hlVars, redisUp, localCounts, localConcurrent, call, holding,
                   admWin, admCnt>>

\* the steps that finish a call in progress
CallStep(c) ==
    \/ CheckReadAll(c)
    \/ StoreStep(c)
    \/ OutageStep(c)

NextHeal ==
    \/ now < MaxTime /\ Quiet /\ \E c \in Callers : StartCheck(c)
    \/ Quiet /\ \E c \in Callers : StartRelease(c)
    \/ \E c \in Callers : CallStep(c)
    \/ \E c \in Callers : Crash(c)
    \/ Tick
    \/ Drain

\* Every store operation issued is answered or throws, so a call in progress
\* goes on; the clock advances.  Nothing obliges a caller to call, to
\* release or to crash.
SpecHeal ==
    /\ InitRL
    /\ [][NextHeal]_vars
    /\ \A c \in Callers : WF_vars(CallStep(c))
    /\ WF_vars(Tick)
    /\ WF_vars(Drain)

\* a call is being denied for the concurrency limit of the store alone
DeniedForConcurrency ==
    \E c \in Callers :
        call[c].pc = "chk_ret" /\ call[c].ret = Denied("concurrent", "redis")

\* the concurrency counter of the store no longer stands in the way
ConcurrencyFree == ~ConcurrencyExhausted(OrZero(RedisGet(kConcurrent)))

\* C29: whenever the concurrency counter of the store is raised it carries
\* a TTL once the call has returned, and a denial for the concurrency limit
\* is followed by a state where the counter has expired or fallen below the
\* limit, also when every admitted caller crashed without releasing
C29_SelfHealing ==
    /\ [](Quiet /\ kConcurrent.has /\ kConcurrent.v > 0 => kConcurrent.exp # 0)
    /\ (DeniedForConcurrency ~> ConcurrencyFree)

\* a call is denied for concurrency, the callers that held the slots have
\* all crashed, and the counter has expired
C29_Witness ==
    /\ DeniedForConcurrency
    /\ Cardinality(crashed) >= MaxConcurrent
    /\ HeldSlots = 0
    /\ ~kConcurrent.has

(***************************************************************************)
(* SpecOutage: the store comes and goes.  Calls are made one at a time,    *)
(* the three reads of a call served back to back; the store may stop       *)
(* answering at any moment, between two operations of one call included,   *)
(* and may answer again later.                                             *)
(***************************************************************************)
\* the store stops answering: every operation issued from now on throws
StoreFails ==
    /\ redisUp
    /\ redisUp' = FALSE
    /\ UNCHANGED <<exVars, orVars, plVars, unVars, dcVars, auxVars, now, kWindow, kCount,
                   kConcurrent, localCounts, localConcurrent, call, holding, admWin, admCnt>>

\* the store answers again
StoreRecovers ==
    /\ ~redisUp
    /\ redisUp' = TRUE
    /\ UNCHANGED <<exVars, orVars, plVars, unVars, dcVars, auxVars, now, kWindow, kCount,
                   kConcurrent, localCounts, localConcurrent, call, holding, admWin, admCnt>>

NextOutage ==
    \/ Quiet /\ \E c \in Callers : StartCheck(c)
    \/ Quiet /\ \E c \in Callers : StartRelease(c)
    \/ \E c \in Callers : CallStep(c)
    \/ Tick
    \/ StoreFails
    \/ StoreRecovers

SpecOutage == InitRL /\ [][NextOutage]_vars

\* the rate-limit state: the three keys of the store and the counters of
\* the processes
LimitState == <<kWindow, kCount, kConcurrent, localCounts, localConcurrent>>

\* the call of c has issued no write yet
NothingWritten(c) ==
    \/ call[c].pc = "chk_read"
    \/ call[c].pc = "chk_new" /\ call[c].pend = {"window", "count"}
    \/ call[c].pc = "chk_incr" /\ call[c].pend = {"count", "concurrent"}

\* C36 (as claimed): the step in which a call of checkLimit comes to the
\* decision allowed = false changes nothing of the rate-limit state, and the
\* call has written nothing before it, also when it decides by the local
\* counters after a store operation failed
C36_Claim ==
    [][\A c \in Callers :
          (call[c].pc # "chk_ret" /\ call'[c].pc = "chk_ret" /\ ~call'[c].ret.allowed)
             => /\ NothingWritten(c)
                /\ LimitState' = LimitState]_vars

(***************************************************************************)
(* executeParallel and executeAgent (multi-agent.ts)                       *)
(*                                                                         *)
(* A plan is what decompose returns: the parsed JSON of the model's        *)
(* answer, taken as it is.  subTasks lists the task ids in declaration     *)
(* order; parallelGroups is a list of lists of ids, which may name a task  *)
(* in no group, in several groups, or name an id that is no task.          *)
(***************************************************************************)
TaskIds == {"t1", "t2", "t3"}
DeclOrder == <<"t1", "t2", "t3">>
MaxGroups == 2

Range(s) == {s[i] : i \in DOMAIN s}

\* Array.prototype.includes
Includes(s, x) == \E i \in DOMAIN s : s[i] = x

\* the lists of distinct ids
GroupLists ==
    {s \in UNION {[1..n -> TaskIds] : n \in 0..Len(DeclOrder)} :
        \A i, j \in DOMAIN s : i # j => s[i] # s[j]}

\* the number of ids a list of groups names
RECURSIVE TotalLen(_)
TotalLen(gs) == IF gs = <<>> THEN 0 ELSE Len(Head(gs)) + TotalLen(Tail(gs))

\* the plans of up to MaxGroups groups whose groups name, in all, no more
\* ids than there are ids
Plans ==
    [subTasks : {SubSeq(DeclOrder, 1, n) : n \in 1..Len(DeclOrder)},
     parallelGroups : {gs \in UNION {[1..m -> GroupLists] : m \in 0..MaxGroups} :
                          TotalLen(gs) <= Len(DeclOrder)},
     onProgress : {"none", "resolves", "rejects"}]

Execs == (1..MaxGroups) \X TaskIds

\* an output is a pair: the prefix "Error: " or none, and the text
NoResult == [taskId |-> "none", success |-> FALSE, output |-> <<"", "none">>,
             files |-> "none"]
NoSlot == [st |-> "none", cause |-> "none", res |-> NoResult]

ExInit ==
    /\ plan \in Plans
    /\ xpc = "loop"
    /\ gi = 1
    /\ agent = [e \in Execs |-> "none"]
    /\ slot = [e \in Execs |-> NoSlot]
    /\ ctxLen = [e \in Execs |-> 0]
    /\ allResults = <<>>
    /\ inverted = FALSE

\* (mutant: the tasks are taken in the order the group lists them)
TasksInGroupOrder(g) ==
    SelectSeq(plan.parallelGroups[g], LAMBDA t : Includes(plan.subTasks, t))

\* line 945: plan.subTasks.filter(t => group.includes(t.id))
TasksToRun(g) ==
    SelectSeq(plan.subTasks, LAMBDA t : Includes(plan.parallelGroups[g], t))

\* lines 1117-1124: the value executeAgent returns after the provider answered
AgentSuccess(t) ==
    [taskId |-> t, success |-> TRUE, output |-> <<"", "result">>, files |-> "extracted"]

\* lines 1126-1138: the catch of executeAgent; the output is the error message,
\* the record has no files
AgentCatch(t, msg) ==
    [taskId |-> t, success |-> FALSE, output |-> <<"", msg>>, files |-> "absent"]

\* (mutant: the catch of the task wrapper rethrows)
TaskCatchRethrows(t, msg) == [st |-> "rejected", res |-> NoResult]

\* lines 962-973: the catch around Promise.race; the task's promise is fulfilled
\* with a failed result
TaskCatch(t, msg) ==
    [st |-> "fulfilled",
     res |-> [taskId |-> t, success |-> FALSE, output |-> <<"Error: ", msg>>,
              files |-> "empty"]]

\* line 958: the race settled with a value
TaskReturn(r) == [st |-> "fulfilled", res |-> r]

\* position of a task in plan.subTasks
Pos(t) == CHOOSE i \in DOMAIN plan.subTasks : plan.subTasks[i] = t

\* the promise of execution e settles as sr; cause records which event did it
Settle(e, cause, sr) ==
    /\ slot' = [slot EXCEPT ![e] = [st |-> sr.st, cause |-> cause, res |-> sr.res]]
    /\ inverted' = (inverted \/ \E t \in Range(TasksToRun(e[1])) :
                                   /\ Pos(t) < Pos(e[2])
                                   /\ slot[<<e[1], t>>].st = "pending")

\* (mutant: the loop goes on as soon as one task of the group has settled)
AnySettled(g) ==
    \E t \in Range(TasksToRun(g)) : slot[<<g, t>>].st \notin {"none", "pending"}

\* line 951: Promise.all is settled when every promise of the group is
AllSettled(g) ==
    \A t \in Range(TasksToRun(g)) : slot[<<g, t>>].st \notin {"none", "pending"}

\* lines 928-961, onProgress absent or resolving: the tasks of group gi are
\* all started (each executeAgent runs up to its first await)
StartGroup ==
    /\ xpc = "loop"
    /\ gi <= Len(plan.parallelGroups)
    /\ plan.onProgress # "rejects"
    /\ agent' = [e \in Execs |->
                   IF e[1] = gi /\ Includes(TasksToRun(gi), e[2]) THEN "pre" ELSE agent[e]]
    /\ slot' = [e \in Execs |->
                   IF e[1] = gi /\ Includes(TasksToRun(gi), e[2])
                   THEN [NoSlot EXCEPT !.st = "pending"] ELSE slot[e]]
    /\ xpc' = "await"
    /\ UNCHANGED <<rlVars, orVars, plVars, unVars, dcVars, auxVars, plan, gi, ctxLen, allResults, inverted>>

\* lines 935-942: the awaited progress callback rejects, and executeParallel
\* with it
ProgressRejects ==
    /\ xpc = "loop"
    /\ gi <= Len(plan.parallelGroups)
    /\ plan.onProgress = "rejects"
    /\ xpc' = "rejected"
    /\ UNCHANGED <<rlVars, orVars, plVars, unVars, dcVars, auxVars, plan, gi, agent, slot, ctxLen, allResults, inverted>>

\* lines 1003-1015: the quota check, the cost check or trackAction throws
\* outside the try of executeAgent
AgentThrows(e) ==
    /\ agent[e] = "pre"
    /\ agent' = [agent EXCEPT ![e] = "done"]
    /\ Settle(e, "threw", TaskCatch(e[2], "quota exceeded"))
    /\ UNCHANGED <<rlVars, orVars, plVars, unVars, dcVars, auxVars, plan, xpc, gi, ctxLen, allResults>>

\* lines 1018-1020: the context is built from previousResults, which is the
\* array allResults itself
AgentReadContext(e) ==
    /\ agent[e] = "pre"
    /\ agent' = [agent EXCEPT ![e] = "call"]
    /\ ctxLen' = [ctxLen EXCEPT ![e] = Len(allResults)]
    /\ UNCHANGED <<rlVars, orVars, plVars, unVars, dcVars, auxVars, plan, xpc, gi, slot, allResults, inverted>>

\* lines 1080-1124: the provider answers
AgentSucceeds(e) ==
    /\ agent[e] = "call"
    /\ agent' = [agent EXCEPT ![e] = "done"]
    /\ Settle(e, "ok", TaskReturn(AgentSuccess(e[2])))
    /\ UNCHANGED <<rlVars, orVars, plVars, unVars, dcVars, auxVars, plan, xpc, gi, ctxLen, allResults>>

\* lines 1051-1087 and 1126-1138: the prompt building or the provider call throws
AgentFails(e) ==
    /\ agent[e] = "call"
    /\ agent' = [agent EXCEPT ![e] = "done"]
    /\ Settle(e, "provider", TaskReturn(AgentCatch(e[2], "provider error")))
    /\ UNCHANGED <<rlVars, orVars, plVars, unVars, dcVars, auxVars, plan, xpc, gi, ctxLen, allResults>>

\* lines 953-955: the 60 s timer fires first; the executeAgent call goes on
\* from where it is, before or after it has read previousResults
AgentTimeout(e) ==
    /\ agent[e] \in {"pre", "call"}
    /\ agent' = [agent EXCEPT ![e] = IF agent[e] = "pre" THEN "latepre" ELSE "late"]
    /\ Settle(e, "timeout", TaskCatch(e[2], "timeout after 60s"))
    /\ UNCHANGED <<rlVars, orVars, plVars, unVars, dcVars, auxVars, plan, xpc, gi, ctxLen, allResults>>

\* lines 1018-1020 in a call that lost the race while it awaited the quota
\* checks: it reads previousResults, the array allResults, as it is by then,
\* calls the provider and ends; Promise.race drops its outcome
LateReadContext(e) ==
    /\ agent[e] = "latepre"
    /\ agent' = [agent EXCEPT ![e] = "done"]
    /\ ctxLen' = [ctxLen EXCEPT ![e] = Len(allResults)]
    /\ UNCHANGED <<rlVars, orVars, plVars, unVars, dcVars, auxVars, plan, xpc, gi, slot, allResults, inverted>>

\* a call that lost the race ends; Promise.race drops its outcome
LateFinish(e) ==
    /\ agent[e] \in {"late", "latepre"}
    /\ agent' = [agent EXCEPT ![e] = "done"]
    /\ UNCHANGED <<rlVars, orVars, plVars, unVars, dcVars, auxVars, plan, xpc, gi, slot, ctxLen, allResults, inverted>>

\* lines 951 and 977: Promise.all settles; the results of the group are
\* appended in the order of tasksToRun.  (A rejected promise would reject
\* Promise.all and executeParallel.)
GroupSettles ==
    /\ xpc = "await"
    /\ AllSettled(gi)
    /\ IF \E t \in Range(TasksToRun(gi)) : slot[<<gi, t>>].st = "rejected"
       THEN /\ xpc' = "rejected"
            /\ UNCHANGED <<gi, allResults>>
       ELSE /\ allResults' = allResults \o
                    [i \in 1..Len(TasksToRun(gi)) |-> slot[<<gi, TasksToRun(gi)[i]>>].res]
            /\ gi' = gi + 1
            /\ xpc' = "loop"
    /\ UNCHANGED <<rlVars, orVars, plVars, unVars, dcVars, auxVars, plan, agent, slot, ctxLen, inverted>>

\* line 980
ReturnResults ==
    /\ xpc = "loop"
    /\ gi > Len(plan.parallelGroups)
    /\ xpc' = "done"
    /\ UNCHANGED <<rlVars, orVars, plVars, unVars, dcVars, auxVars, plan, gi, agent, slot, ctxLen, allResults, inverted>>

NextExec ==
    \/ StartGroup
    \/ ProgressRejects
    \/ \E e \in Execs : AgentThrows(e)
    \/ \E e \in Execs : AgentReadContext(e)
    \/ \E e \in Execs : AgentSucceeds(e)
    \/ \E e \in Execs : AgentFails(e)
    \/ \E e \in Execs : AgentTimeout(e)
    \/ \E e \in Execs : LateReadContext(e)
    \/ \E e \in Execs : LateFinish(e)
    \/ GroupSettles
    \/ ReturnResults

(***************************************************************************)
(* SpecExec: one run of executeParallel on any plan of Plans               *)
(***************************************************************************)
InitExec == RLIdle /\ ExInit /\ OrIdle /\ PlIdle /\ UnIdle /\ DcIdle /\ AuxIdle

SpecExec == InitExec /\ [][NextExec]_vars

\* The event loop runs a timer that is due and the continuation of a settled
\* promise; the progress callback, when there is one, settles.  Nothing is
\* assumed of executeAgent: its quota checks and its provider call may never
\* come back.
SpecExecFair ==
    /\ SpecExec
    /\ WF_vars(StartGroup)
    /\ WF_vars(ProgressRejects)
    /\ \A e \in Execs : WF_vars(AgentTimeout(e))
    /\ WF_vars(GroupSettles)
    /\ WF_vars(ReturnResults)

(***************************************************************************)
(* Properties of the executor                                              *)
(***************************************************************************)

\* the declared tasks a group names, in declaration order
GroupInDeclOrder(g) ==
    SelectSeq(plan.subTasks, LAMBDA t : t \in Range(plan.parallelGroups[g]))

\* the declared tasks of the first n groups, group after group
RECURSIVE ConcatGroups(_)
ConcatGroups(n) == IF n = 0 THEN <<>> ELSE ConcatGroups(n - 1) \o GroupInDeclOrder(n)

ResultIds == [i \in DOMAIN allResults |-> allResults[i].taskId]

Running == {"pre", "call"}

\* the output a failed result carries for each kind of failure
FailureOutput(cause) ==
    CASE cause = "threw" -> <<"Error: ", "quota exceeded">>
      [] cause = "timeout" -> <<"Error: ", "timeout after 60s">>
      [] cause = "provider" -> <<"", "provider error">>

\* C6: a task that throws, fails or exceeds its 60 s yields a result with
\* success false and the error as output; no task failure makes
\* executeParallel reject, and when it returns every task of every group has
\* been executed and has its result in the list.
C6_Isolation ==
    /\ xpc = "rejected" => plan.onProgress = "rejects"
    /\ \A e \in DOMAIN slot :
          slot[e].cause \in {"threw", "timeout", "provider"}
            => /\ slot[e].st = "fulfilled"
               /\ slot[e].res.taskId = e[2]
               /\ ~slot[e].res.success
               /\ slot[e].res.output = FailureOutput(slot[e].cause)
    /\ xpc = "done"
          => \A g \in DOMAIN plan.parallelGroups : \A t \in Range(GroupInDeclOrder(g)) :
                /\ agent[<<g, t>>] \in {"done", "late", "latepre"}
                /\ slot[<<g, t>>].st = "fulfilled"
                /\ \E i \in DOMAIN allResults : allResults[i] = slot[<<g, t>>].res

\* C6 witness: a run that returned, in which a task of the first group timed
\* out, another threw, a sibling succeeded and a task of the second group
\* succeeded
C6_Witness ==
    /\ xpc = "done"
    /\ \E t1, t2 \in TaskIds, e \in DOMAIN slot :
          /\ t1 # t2
          /\ slot[<<1, t1>>].cause \in {"timeout", "threw"}
          /\ slot[<<1, t2>>].cause = "ok"
          /\ e[1] = 2 /\ slot[e].cause = "ok"
          /\ \E i, j \in DOMAIN allResults :
                /\ allResults[i].taskId = t1 /\ ~allResults[i].success
                /\ allResults[j].taskId = e[2] /\ allResults[j].success /\ i < j

C8_Claim ==
    xpc = "done"
      => \A t \in Range(plan.subTasks) :
            Cardinality({i \in DOMAIN allResults : allResults[i].taskId = t}) = 1

\* C9: no task of a group is started before every task of the groups before
\* it has its result, a timeout result included; the tasks of one group are
\* started together.
C9_GroupsSequential ==
    /\ \A e \in DOMAIN agent :
          agent[e] # "none"
            => \A g \in 1..(e[1] - 1) : \A t \in Range(GroupInDeclOrder(g)) :
                  slot[<<g, t>>].st = "fulfilled"
    /\ \A g \in DOMAIN plan.parallelGroups : \A t1, t2 \in Range(GroupInDeclOrder(g)) :
          (agent[<<g, t1>>] = "none") = (agent[<<g, t2>>] = "none")

\* C9 witness: two tasks of the second group are running together while a
\* timed-out call of the first group has not ended yet
C9_Witness ==
    \E t, t1, t2 \in TaskIds :
        /\ t1 # t2
        /\ <<1, t>> \in DOMAIN agent
        /\ agent[<<1, t>>] = "late"
        /\ slot[<<1, t>>].cause = "timeout"
        /\ agent[<<2, t1>>] \in Running
        /\ agent[<<2, t2>>] \in Running

\* the number of results of the groups before group g
RECURSIVE ResultsBefore(_)
ResultsBefore(g) ==
    IF g <= 1 THEN 0 ELSE ResultsBefore(g - 1) + Len(TasksToRun(g - 1))

\* execution e is past lines 1018-1020
HasReadContext(e) ==
    agent[e] \in {"call", "late"} \/ (agent[e] = "done" /\ slot[e].cause \in {"ok", "provider"})

\* C31 (as claimed): the previousResults a task of group k builds its context
\* from are the results of groups 1..k-1, all of them and nothing else; no
\* result of group k or of a later group is among them
C31_Claim ==
    \A e \in Execs :
        e[1] \in DOMAIN plan.parallelGroups =>
            /\ ctxLen[e] <= ResultsBefore(e[1])
            /\ HasReadContext(e) => ctxLen[e] = ResultsBefore(e[1])

\* C30 (as claimed): every task that was started gets its result though its
\* executeAgent call never comes back, every group that was started
\* completes, and executeParallel runs through all the groups of the plan and
\* returns
C30_Claim ==
    /\ \A e \in Execs : (slot[e].st = "pending") ~> (slot[e].st = "fulfilled")
    /\ (xpc = "await") ~> (xpc = "loop")
    /\ <>(xpc = "done")

(***************************************************************************)
(* The cache lookup chain of orchestrate (lines 170-226) and executeFast   *)
(* (lines 583-639), and what follows a miss of every tier.                 *)
(*                                                                         *)
(* What a tier holds for the request is an input:                          *)
(*   durable   the value of findCachedResponse: no match ("none"), a match *)
(*             whose record has files ("files"), a match whose record has  *)
(*             files = null ("nofiles"); or createClient throws ("throws") *)
(*   fast      responseCache.findSimilar: "hit", "miss" or "throws"        *)
(*   semantic  semanticCache.findSimilar: "hit", "miss" or "throws"        *)
(* executeFast takes no progress callback.                                 *)
(***************************************************************************)
Requests ==
    {r \in [path : {"orchestrate", "executeFast"},
            durable : {"none", "files", "nofiles", "throws"},
            fast : {"hit", "miss", "throws"},
            semantic : {"hit", "miss", "throws"},
            onProgress : {"none", "resolves", "rejects"}] :
        r.path = "executeFast" => r.onProgress = "none"}

OrInit ==
    /\ req \in Requests
    /\ opc = "start"
    /\ consulted = <<>>
    /\ genCalls = 0
    /\ decomposed = FALSE
    /\ executed = FALSE
    /\ ret = NoRet
    /\ written = {}

\* the request returns r
OrReturn(r) == opc' = "returned" /\ ret' = r

\* lines 179-186, 200-207, 217-224: the cached artifacts, as a successful result
CachedResult(tier) == [success |-> TRUE, source |-> tier]

\* lines 376-393 and 849-870: the catch of the whole request
FailureResult == [success |-> FALSE, source |-> "error"]

\* lines 174 and 587: persistentResult && persistentResult.files
DurableHit(d) == d = "files"

\* lines 195 and 607: if (cachedResult)
FastHit(f) == f = "hit"

\* lines 213 and 626: if (semanticResult)
SemanticHit(m) == m = "hit"

\* lines 154-164 and 567-577: the trace is started
StartTrace ==
    /\ opc = "start"
    /\ opc' = "durable"
    /\ UNCHANGED <<rlVars, exVars, plVars, unVars, dcVars, auxVars, written, req, consulted, genCalls, decomposed, executed, ret>>

\* lines 171-191 and 584-601: the durable tier.  Whatever is thrown inside
\* the inner try, the rejection of the progress callback of line 178
\* included, is caught there and the request goes on with the fast tier.
DurableLookup ==
    /\ opc = "durable"
    /\ consulted' = Append(consulted, "durable")
    /\ IF /\ req.durable # "throws"
          /\ DurableHit(req.durable)
          /\ ~(req.path = "orchestrate" /\ req.onProgress = "rejects")
       THEN OrReturn(CachedResult("durable"))
       ELSE opc' = "fast" /\ UNCHANGED ret
    /\ UNCHANGED <<rlVars, exVars, plVars, unVars, dcVars, auxVars, written, req, genCalls, decomposed, executed>>

\* lines 194-208 and 606-621: the fast in-process tier.  An exception, the
\* rejection of the progress callback of line 199 included, reaches the
\* catch of the whole request.
FastLookup ==
    /\ opc = "fast"
    /\ consulted' = Append(consulted, "fast")
    /\ IF req.fast = "throws"
       THEN OrReturn(FailureResult)
       ELSE IF FastHit(req.fast)
            THEN IF req.path = "orchestrate" /\ req.onProgress = "rejects"
                 THEN OrReturn(FailureResult)
                 ELSE OrReturn(CachedResult("fast"))
            ELSE opc' = "semantic" /\ UNCHANGED ret
    /\ UNCHANGED <<rlVars, exVars, plVars, unVars, dcVars, auxVars, written, req, genCalls, decomposed, executed>>

\* lines 212-226 and 625-639: the semantic tier
SemanticLookup ==
    /\ opc = "semantic"
    /\ consulted' = Append(consulted, "semantic")
    /\ IF req.semantic = "throws"
       THEN OrReturn(FailureResult)
       ELSE IF SemanticHit(req.semantic)
            THEN OrReturn(CachedResult("semantic"))
            ELSE /\ opc' = IF req.path = "orchestrate" THEN "decompose" ELSE "quota"
                 /\ UNCHANGED ret
    /\ UNCHANGED <<rlVars, exVars, plVars, unVars, dcVars, auxVars, written, req, genCalls, decomposed, executed>>

\* orchestrate, lines 229-289: session tracking, retrieval, the progress
\* callback of line 285 and decompose, which calls the Generation Service
Decompose ==
    /\ opc = "decompose"
    /\ req.onProgress # "rejects"
    /\ decomposed' = TRUE
    /\ genCalls' = genCalls + 1
    /\ \E ok \in BOOLEAN :
          IF ok THEN opc' = "execute" /\ UNCHANGED ret
          ELSE OrReturn(FailureResult)
    /\ UNCHANGED <<rlVars, exVars, plVars, unVars, dcVars, auxVars, written, req, consulted, executed>>

\* orchestrate, line 285: the awaited progress callback rejects
DecomposeProgressRejects ==
    /\ opc = "decompose"
    /\ req.onProgress = "rejects"
    /\ OrReturn(FailureResult)
    /\ UNCHANGED <<rlVars, exVars, plVars, unVars, dcVars, auxVars, written, req, consulted, genCalls, decomposed, executed>>

\* lines 344-351 and 812-823: the result of a run that generated
GeneratedResult == [success |-> TRUE, source |-> "generated"]

\* lines 825-827 of executeFast: responseCache.set and, handed to
\* fireAndForget, semanticCache.addEmbedding
FastWrites == {"fast", "semantic"}

\* line 353 of orchestrate: responseCache.set; nothing up to the return of
\* line 374 touches the semantic tier
OrchestrateWrites == {"fast"}

\* orchestrate, lines 292-374: executeParallel, verification, merge, cleanup,
\* the final verifier and the write to the fast tier
ExecuteAndFinish ==
    /\ opc = "execute"
    /\ executed' = TRUE
    /\ \E ok \in BOOLEAN :
          /\ OrReturn(IF ok THEN GeneratedResult ELSE FailureResult)
          /\ written' = IF ok THEN OrchestrateWrites ELSE {}
    /\ UNCHANGED <<rlVars, exVars, plVars, unVars, dcVars, auxVars, req, consulted, genCalls, decomposed>>

\* executeFast, lines 663-674: the quota or the cost budget is exceeded
FastQuotaExceeded ==
    /\ opc = "quota"
    /\ OrReturn(FailureResult)
    /\ UNCHANGED <<rlVars, exVars, plVars, unVars, dcVars, auxVars, written, req, consulted, genCalls, decomposed, executed>>

\* executeFast, lines 736-870: the single call to the Generation Service
FastGenerate ==
    /\ opc = "quota"
    /\ genCalls' = genCalls + 1
    /\ \E ok \in BOOLEAN :
          /\ OrReturn(IF ok THEN GeneratedResult ELSE FailureResult)
          /\ written' = IF ok THEN FastWrites ELSE {}
    /\ UNCHANGED <<rlVars, exVars, plVars, unVars, dcVars, auxVars, req, consulted, decomposed, executed>>

NextOrch ==
    \/ StartTrace
    \/ DurableLookup
    \/ FastLookup
    \/ SemanticLookup
    \/ Decompose
    \/ DecomposeProgressRejects
    \/ ExecuteAndFinish
    \/ FastQuotaExceeded
    \/ FastGenerate

(***************************************************************************)
(* SpecOrch: one request, against any content of the three tiers           *)
(***************************************************************************)
InitOrch == RLIdle /\ ExIdle /\ OrInit /\ PlIdle /\ UnIdle /\ DcIdle /\ AuxIdle

SpecOrch == InitOrch /\ [][NextOrch]_vars

(***************************************************************************)
(* Properties of the lookup chain                                          *)
(***************************************************************************)
TierOrder == <<"durable", "fast", "semantic">>

IsPrefix(s, t) == Len(s) <= Len(t) /\ \A i \in DOMAIN s : s[i] = t[i]

\* the tier found a matching entry for the request
TierMatched(tier) ==
    CASE tier = "durable" -> req.durable \in {"files", "nofiles"}
      [] tier = "fast" -> req.fast = "hit"
      [] tier = "semantic" -> req.semantic = "hit"

Generated == genCalls > 0 \/ decomposed \/ executed

\* C10: the tiers are consulted in the order durable, fast, semantic; no tier
\* is consulted after a tier that found a match, and a request for which a
\* tier found a match returns a successful cached result with nothing
\* generated, decomposed or executed.
C10_Claim ==
    /\ IsPrefix(consulted, TierOrder)
    /\ \A i \in 2..Len(consulted) : ~TierMatched(consulted[i - 1])
    /\ (opc = "returned" /\ \E i \in DOMAIN consulted : TierMatched(consulted[i]))
          => ret.success /\ ~Generated

\* the request missed every tier and its run succeeded
MissedAndSucceeded ==
    /\ opc = "returned"
    /\ consulted = TierOrder
    /\ ret = GeneratedResult

\* C22: a request of orchestrate or of executeFast that missed every tier and
\* whose run succeeded has written its result to the fast in-process tier and
\* has added an embedding of the request to the semantic tier.
C22_Claim == MissedAndSucceeded => written = {"fast", "semantic"}

\* what the tiers alone make of a request: the tiers consulted
TiersConsulted(r) ==
    IF DurableHit(r.durable) THEN <<"durable">>
    ELSE IF r.fast # "miss" THEN <<"durable", "fast">>
    ELSE <<"durable", "fast", "semantic">>

\* what the tiers alone make of a request: the result returned before any
\* generation, NoRet when every tier misses
TiersResult(r) ==
    IF DurableHit(r.durable) THEN CachedResult("durable")
    ELSE IF r.fast = "hit" THEN CachedResult("fast")
    ELSE IF r.fast = "throws" THEN FailureResult
    ELSE IF r.semantic = "hit" THEN CachedResult("semantic")
    ELSE IF r.semantic = "throws" THEN FailureResult
    ELSE NoRet

\* C35 (as claimed): what orchestrate consults, generates and returns depends
\* on the request and the tiers only, not on the progress callback: the
\* tiers consulted and a result served from the tiers are those of a request
\* without callback, and a request that misses every tier goes on to
\* decompose
C35_Claim ==
    (opc = "returned" /\ req.path = "orchestrate") =>
        /\ consulted = TiersConsulted(req)
        /\ TiersResult(req) # NoRet => ret = TiersResult(req) /\ ~decomposed
        /\ TiersResult(req) = NoRet => decomposed

(***************************************************************************)
(* merge (multi-agent.ts, lines 1570-1665)                                 *)
(***************************************************************************)

\* line 1583: forbiddenPaths
ForbiddenPaths ==
    {"prisma/", "server/", "api/", ".env", "docker", "/migrations/", "schema.prisma"}

\* String.prototype.toLowerCase, on the pieces of the paths of the model
ToLowerCase(piece) ==
    CASE piece = "Prisma/" -> "prisma/"
      [] piece = "App.tsx" -> "app.tsx"
      [] piece = "DATA12.JSON" -> "data12.json"
      [] OTHER -> piece

\* line 1584: forbiddenPaths.some(fp => filename.toLowerCase().includes(fp))
Forbidden(filename) ==
    \E i \in DOMAIN filename : ToLowerCase(filename[i]) \in ForbiddenPaths

\* JavaScript truthiness of allFiles[filename]: undefined and '' are falsy
Truthy(content) == content # NoFile /\ content # ""

\* line 1591: allFiles[filename] && allFiles[filename] !== content
ConflictsWith(existing, content) == Truthy(existing) /\ existing # content

\* lines 1593-1598: the conflict of the path gets one more source, or a new
\* conflict is pushed whose only source is the current result
PushConflict(conflicts, filename, result) ==
    IF \E i \in DOMAIN conflicts : conflicts[i].filename = filename
    THEN [i \in DOMAIN conflicts |->
            IF conflicts[i].filename = filename
            THEN [conflicts[i] EXCEPT !.sources = Append(@, result.taskId)]
            ELSE conflicts[i]]
    ELSE Append(conflicts, [filename |-> filename, sources |-> <<result.taskId>>])

\* lines 1581-1601: one entry of result.files
MergeEntry(acc, result, filename) ==
    LET content == result.files[filename] IN
    IF content = NoFile \/ Forbidden(filename)
    THEN acc
    ELSE [files     |-> [acc.files EXCEPT ![filename] = content],
          conflicts |-> IF ConflictsWith(acc.files[filename], content)
                        THEN PushConflict(acc.conflicts, filename, result)
                        ELSE acc.conflicts]

RECURSIVE MergeEntries(_, _, _)
\* lines 1580-1602: the entries of one result, in the order of Object.entries
MergeEntries(acc, result, k) ==
    IF k > Len(PathOrder) THEN acc
    ELSE MergeEntries(MergeEntry(acc, result, PathOrder[k]), result, k + 1)

RECURSIVE MergeResults(_, _, _)
\* lines 1576-1603: the union of the results, in list order
MergeResults(acc, results, i) ==
    IF i > Len(results) THEN acc
    ELSE MergeResults(MergeEntries(acc, results[i], 1), results, i + 1)

\* lines 1576-1603
Union(results) == MergeResults(NoMerge, results, 1)

\* what the Generation Service answers to the conflict summary of line 1616:
\* the call fails, the answer holds no JSON that parses, the JSON has no
\* "files", or it has
ResolvedFiles ==
    { [p \in Paths |-> IF p \in ps THEN "b" ELSE NoFile] : ps \in SUBSET Paths }

Resolutions ==
    { [kind |-> k, files |-> EmptyFiles] : k \in {"fails", "unparseable", "nofiles"} }
    \cup { [kind |-> "files", files |-> f] : f \in ResolvedFiles }

\* Object.assign(target, source)
ObjectAssign(target, source) ==
    [p \in Paths |-> IF source[p] # NoFile THEN source[p] ELSE target[p]]

\* line 1608: conflicts.length > 0 && this.enableLogging
ResolutionCalled(acc, enableLogging) == acc.conflicts # <<>> /\ enableLogging

\* lines 1608-1648: the resolved files overwrite the union
Resolve(acc, enableLogging, resolution) ==
    IF ResolutionCalled(acc, enableLogging) /\ resolution.kind = "files"
    THEN [acc EXCEPT !.files = ObjectAssign(acc.files, resolution.files)]
    ELSE acc

\* lines 1651-1658: with no file at all, output.md is made of the outputs of
\* the successful results; it is the empty text when there is none
CombinedOutput(acc, results) ==
    IF Keys(acc.files) = {}
    THEN [acc EXCEPT !.files[OutputMd] =
             IF \E i \in DOMAIN results : results[i].success THEN Combined ELSE ""]
    ELSE acc

\* lines 1570-1665
MergeOf(results, enableLogging, resolution) ==
    CombinedOutput(Resolve(Union(results), enableLogging, resolution), results)

(***************************************************************************)
(* decompose (lines 876-913).  The reply of the Generation Service either   *)
(* holds no {...}, or a text safeParseJSON returns null for, or an object   *)
(* that is returned as the plan, unexamined.                                *)
(***************************************************************************)
NoTaskPlan == [subTasks |-> <<>>, parallelGroups |-> <<>>]

SubTask(id, agentName, deps) == [id |-> id, agent |-> agentName, dependencies |-> deps]

\* the objects a reply can hold: two plans that keep the plan invariant, one
\* that names a task in no group and an id that no task has, one whose
\* dependency runs in the same group
ReplyPlans ==
    { [subTasks |-> << SubTask("t1", "frontend", {}), SubTask("t2", "design", {"t1"}) >>,
       parallelGroups |-> << <<"t1">>, <<"t2">> >>],
      [subTasks |-> << SubTask("t1", "research", {}), SubTask("t2", "frontend", {}) >>,
       parallelGroups |-> << <<"t2", "t1">> >>],
      [subTasks |-> << SubTask("t1", "design", {}), SubTask("t2", "frontend", {}) >>,
       parallelGroups |-> << <<"t2", "t9">> >>],
      [subTasks |-> << SubTask("t1", "design", {"t2"}) , SubTask("t2", "frontend", {}) >>,
       parallelGroups |-> << <<"t1", "t2">> >>] }

Replies ==
    { [json |-> k, plan |-> NoTaskPlan] : k \in {"none", "invalid"} }
    \cup { [json |-> "object", plan |-> pl] : pl \in ReplyPlans }

\* (mutant: decompose returns whatever it could make of the reply)
DecomposeNeverThrows(reply) == FALSE

\* lines 894-905: the two throws of decompose
DecomposeThrows(reply) == reply.json # "object"

(***************************************************************************)
(* executeParallel as orchestrate sees it: one result per task run, group   *)
(* after group and in declaration order within a group (C7), a failed       *)
(* result carrying no file (lines 966-973 and 1131-1137)                    *)
(***************************************************************************)
RECURSIVE TasksRun(_, _)
\* line 945, over the groups 1..n
TasksRun(pl, n) ==
    IF n = 0 THEN <<>>
    ELSE TasksRun(pl, n - 1)
         \o SelectSeq(pl.subTasks, LAMBDA t : Includes(pl.parallelGroups[n], t.id))

\* what extractFiles can make of the text of a task (line 1128)
TaskFiles ==
    { f \in [Paths -> Contents \cup {NoFile}] :
        f[OutputMd] = NoFile /\ f[<<"Prisma/", "seed.ts">>] \in {NoFile, "a"} }

\* lines 1124-1130
SuccessResult(t, files) ==
    [taskId |-> t.id, agent |-> t.agent, tagged |-> FALSE, success |-> TRUE,
     output |-> "generated", files |-> files]

\* lines 966-973 and 1131-1137
FailedResult(t) ==
    [taskId |-> t.id, agent |-> t.agent, tagged |-> FALSE, success |-> FALSE,
     output |-> "error", files |-> EmptyFiles]

ResultsOf(t) == {FailedResult(t)} \cup {SuccessResult(t, f) : f \in TaskFiles}

(***************************************************************************)
(* verifyChain and doVerifyChain (lines 1435-1564)                          *)
(***************************************************************************)
AppTsx == <<"src/", "App.tsx">>

\* what extractFiles can make of the text of a review or of a fix
\* (lines 1497 and 1522)
LLMFiles ==
    {EmptyFiles} \cup { [EmptyFiles EXCEPT ![AppTsx] = c] : c \in {"a", "b"} }

\* the files verifyAndFix hands back (line 1508)
FixedFiles == LLMFiles \ {EmptyFiles}

\* line 1464
ToVerify(result) == result.agent \in {"frontend", "backend", "database", "design"}

\* line 1502: the self-healing loop runs for frontend and backend results
\* whose review yielded at least one file
SelfHeals(result, reviewFiles) ==
    result.agent \in {"frontend", "backend"} /\ Keys(reviewFiles) # {}

\* How the verification of one result goes: the review call fails or
\* answers; verifyAndFix then reports verified, or reports that it gave up,
\* or throws; in the course of it a fix call may have failed.
NoHeal == [heal |-> "none", healFiles |-> EmptyFiles, fixError |-> FALSE]

Heals ==
    { [heal |-> "passed", healFiles |-> f, fixError |-> FALSE] : f \in FixedFiles }
    \cup { [heal |-> "exhausted", healFiles |-> f, fixError |-> e] :
             f \in FixedFiles, e \in BOOLEAN }
    \cup { [heal |-> "throws", healFiles |-> EmptyFiles, fixError |-> e] :
             e \in BOOLEAN }

Outcome(review, reviewFiles, h) ==
    [review |-> review, reviewFiles |-> reviewFiles, heal |-> h.heal,
     healFiles |-> h.healFiles, fixError |-> h.fixError]

NoOutcome == Outcome("none", EmptyFiles, NoHeal)

VerifyOutcomes(result) ==
    IF ~ToVerify(result) THEN {NoOutcome}
    ELSE {Outcome("fails", EmptyFiles, NoHeal)}
         \cup { Outcome("ok", f, h) :
                  f \in LLMFiles,
                  h \in Heals \cup {NoHeal} }

\* an outcome that says what happened and nothing else
Canonical(result, o) ==
    /\ o \in VerifyOutcomes(result)
    /\ o.review = "ok" => (SelfHeals(result, o.reviewFiles) <=> o.heal # "none")

\* lines 1478-1557: the result of verifying one result.  The tag
\* '+verified' is appended to the agent name whenever the review call
\* answered.
VerifyResult(result, o) ==
    IF o.review = "fails"
    THEN result
    ELSE [result EXCEPT
            !.output = IF o.heal = "passed" THEN "listing" ELSE "reviewed",
            !.files  = IF o.heal \in {"passed", "exhausted"} THEN o.healFiles
                       ELSE o.reviewFiles,
            !.tagged = TRUE]

Verdict(result, o) ==
    [taskId |-> result.taskId, review |-> o.review, heal |-> o.heal,
     fixError |-> o.fixError, before |-> result.files, last |-> o.healFiles]

\* lines 1464-1467 and 1560-1563: the results that are not verified come
\* first, the verified ones after them
SkippedFirst(results, f(_)) ==
    LET idx == [i \in DOMAIN results |-> i]
        skipped == SelectSeq(idx, LAMBDA i : ~ToVerify(results[i]))
        checked == SelectSeq(idx, LAMBDA i : ToVerify(results[i]))
        order == skipped \o checked
    IN [k \in DOMAIN order |-> f(order[k])]

(***************************************************************************)
(* orchestrate, lines 284-394                                               *)
(***************************************************************************)
PlInit ==
    /\ ppc = "decompose"
    /\ cfg \in [enableLogging : BOOLEAN]
    /\ workerResults = <<>>
    /\ verifiedResults = <<>>
    /\ merged = NoMerge
    /\ taskPlan = NoTaskPlan
    /\ verdicts = <<>>
    /\ called = {}
    /\ cacheSet = FALSE
    /\ finalResult = NoFinal

\* lines 376-393: the catch of orchestrate; the summary is the message of
\* the error
OrchestrateCatch(message) ==
    /\ ppc' = "returned"
    /\ finalResult' = [success |-> FALSE, summary |-> message,
                       files |-> EmptyFiles, agentResults |-> <<>>]

\* lines 285, 292, 296 and 300: the awaited progress callback of the
\* request rejects
ProgressRejected ==
    /\ ppc \in {"decompose", "execute", "verify", "merge"}
    /\ OrchestrateCatch("progress callback failed")
    /\ UNCHANGED <<rlVars, exVars, orVars, unVars, dcVars, auxVars, workerResults, verifiedResults, merged,
                   cfg, taskPlan, verdicts, called, cacheSet>>

\* lines 285-289: decompose
OrchestrateDecompose ==
    /\ ppc = "decompose"
    /\ called' = called \cup {"decompose"}
    /\ \E reply \in Replies \cup {[json |-> "error", plan |-> NoTaskPlan]} :
          IF DecomposeThrows(reply)
          THEN OrchestrateCatch("Failed to parse task decomposition") /\ UNCHANGED taskPlan
          ELSE /\ taskPlan' = reply.plan
               /\ ppc' = "execute"
               /\ UNCHANGED finalResult
    /\ UNCHANGED <<rlVars, exVars, orVars, unVars, dcVars, auxVars, workerResults, verifiedResults, merged,
                   cfg, verdicts, cacheSet>>

\* lines 292-293: executeParallel
OrchestrateExecute ==
    /\ ppc = "execute"
    /\ LET run == TasksRun(taskPlan, Len(taskPlan.parallelGroups)) IN
       /\ \E rs \in [DOMAIN run -> UNION {ResultsOf(run[i]) : i \in DOMAIN run}] :
             /\ \A i \in DOMAIN run : rs[i] \in ResultsOf(run[i])
             /\ workerResults' = rs
             /\ called' = IF \E i \in DOMAIN rs : rs[i].success
                          THEN called \cup {"task"} ELSE called
    /\ ppc' = "verify"
    /\ UNCHANGED <<rlVars, exVars, orVars, unVars, dcVars, auxVars, verifiedResults, merged, cfg, taskPlan,
                   verdicts, cacheSet, finalResult>>

\* lines 1447-1455: doVerifyChain settles before the 45 s timer
VerifyChain ==
    /\ ppc = "verify"
    /\ \E os \in [DOMAIN workerResults ->
                    UNION {VerifyOutcomes(workerResults[i]) : i \in DOMAIN workerResults}] :
          /\ \A i \in DOMAIN workerResults : Canonical(workerResults[i], os[i])
          /\ verifiedResults' =
                SkippedFirst(workerResults, LAMBDA i : VerifyResult(workerResults[i], os[i]))
          /\ verdicts' =
                SkippedFirst(workerResults, LAMBDA i : Verdict(workerResults[i], os[i]))
          /\ called' = called
                \cup (IF \E i \in DOMAIN os : os[i].review # "none" THEN {"review"} ELSE {})
                \cup (IF \E i \in DOMAIN os : os[i].fixError \/ os[i].heal = "exhausted"
                      THEN {"fix"} ELSE {})
    /\ ppc' = "merge"
    /\ UNCHANGED <<rlVars, exVars, orVars, unVars, dcVars, auxVars, workerResults, merged, cfg, taskPlan,
                   cacheSet, finalResult>>

\* lines 1452-1455: the timer wins, the results are returned as they came
VerifyChainTimeout ==
    /\ ppc = "verify"
    /\ verifiedResults' = workerResults
    /\ verdicts' = [i \in DOMAIN workerResults |->
                      Verdict(workerResults[i], Outcome("timeout", EmptyFiles, NoHeal))]
    /\ called' = IF \E i \in DOMAIN workerResults : ToVerify(workerResults[i])
                 THEN called \cup {"review"} ELSE called
    /\ ppc' = "merge"
    /\ UNCHANGED <<rlVars, exVars, orVars, unVars, dcVars, auxVars, workerResults, merged, cfg, taskPlan,
                   cacheSet, finalResult>>

\* lines 300-301: merge
OrchestrateMerge ==
    /\ ppc = "merge"
    /\ \E resolution \in Resolutions :
          /\ ResolutionCalled(Union(verifiedResults), cfg.enableLogging)
                \/ resolution = [kind |-> "fails", files |-> EmptyFiles]
          /\ merged' = MergeOf(verifiedResults, cfg.enableLogging, resolution)
    /\ called' = IF ResolutionCalled(Union(verifiedResults), cfg.enableLogging)
                 THEN called \cup {"resolve"} ELSE called
    /\ ppc' = "filter"
    /\ UNCHANGED <<rlVars, exVars, orVars, unVars, dcVars, auxVars, workerResults, verifiedResults, cfg,
                   taskPlan, verdicts, cacheSet, finalResult>>

\* line 309: path.split('/').pop()
FileName(path) == path[Len(path)]

\* (mutant: the patterns lack the flag i)
JunkNameCaseSensitive(name) == name \in {"file1.json", "data1.json", "data12.json"}

\* lines 311-312: /^file\d+\.json$/i and /^data\d+\.json$/i, on the file
\* names of the model
JunkName(name) == ToLowerCase(name) \in {"file1.json", "data1.json", "data12.json"}

\* String.prototype.trim, on the contents of the model
Trim(content) ==
    CASE content = " " -> ""
      [] content = " // TODO " -> "// TODO"
      [] content = " a " -> "a"
      [] OTHER -> content

\* lines 314-317: placeholder-only and empty contents
JunkContent(content) == Trim(content) \in {"...", "// TODO", "/* TODO */", ""}

\* lines 307-320 and 753-764
CleanedFiles(files) ==
    [p \in DOMAIN files |->
        IF files[p] # NoFile /\ (JunkName(FileName(p)) \/ JunkContent(files[p]))
        THEN NoFile ELSE files[p]]

\* line 331: the final verifier hands the files back
FinalVerify(files) == [files |-> files, greeting |-> "greeting"]

\* lines 307-374: the junk filter, the final verifier, the result, the write
\* to the fast tier and the return
OrchestrateFinish ==
    /\ ppc = "filter"
    /\ LET verificationResult == FinalVerify(CleanedFiles(merged.files)) IN
       finalResult' = [success |-> TRUE, summary |-> verificationResult.greeting,
                       files |-> verificationResult.files,
                       agentResults |-> verifiedResults]
    /\ cacheSet' = TRUE
    /\ ppc' = "returned"
    /\ UNCHANGED <<rlVars, exVars, orVars, unVars, dcVars, auxVars, workerResults, verifiedResults, merged,
                   cfg, taskPlan, verdicts, called>>

NextPipe ==
    \/ ProgressRejected
    \/ OrchestrateDecompose
    \/ OrchestrateExecute
    \/ VerifyChain
    \/ VerifyChainTimeout
    \/ OrchestrateMerge
    \/ OrchestrateFinish

(***************************************************************************)
(* SpecPipe: one orchestrate request that every cache tier has missed       *)
(***************************************************************************)
InitPipe == RLIdle /\ ExIdle /\ OrIdle /\ PlInit /\ UnIdle /\ DcIdle /\ AuxIdle

SpecPipe == InitPipe /\ [][NextPipe]_vars

(***************************************************************************)
(* Properties of merge                                                     *)
(***************************************************************************)
ConflictPaths(conflicts) == {conflicts[i].filename : i \in DOMAIN conflicts}

\* two different tasks produced differing content for the path
ProducedDiffering(results, filename) ==
    \E i, j \in DOMAIN results :
        /\ results[i].taskId # results[j].taskId
        /\ results[i].files[filename] # NoFile
        /\ results[j].files[filename] # NoFile
        /\ results[i].files[filename] # results[j].files[filename]

\* C11: after merge, a path is in the conflict list exactly when it is not
\* on the deny-list and two different tasks produced differing content for
\* it, whatever the contents are, an empty content included; identical
\* content is never a conflict.
C11_Claim ==
    ppc = "filter"
      => \A filename \in Paths :
            filename \in ConflictPaths(merged.conflicts)
               <=> (~Forbidden(filename) /\ ProducedDiffering(verifiedResults, filename))

\* C24: the files merge returns hold no path of the deny-list, whatever the
\* results are and whatever the conflict-resolution specialist answers.
C24_Claim ==
    ppc = "filter" => \A filename \in Keys(merged.files) : ~Forbidden(filename)

\* C25: merge calls the conflict-resolution specialist exactly when the union
\* recorded at least one conflict, whatever the configuration of the
\* orchestrator is.
C25_Claim ==
    ppc = "filter" => ("resolve" \in called <=> merged.conflicts # <<>>)

\* the content of the last result of the list that holds the path, if any
LastWrite(results, filename) ==
    LET holders == {k \in DOMAIN results : results[k].files[filename] # NoFile}
    IN  IF holders = {} \/ Forbidden(filename) THEN NoFile
        ELSE results[CHOOSE k \in holders : \A j \in holders : j <= k].files[filename]

\* C33 (as claimed): after the specialist was called the paths of the merged
\* files are the paths of the union; and when the call fails or its reply
\* does not parse, the files are the union, each path with the content of
\* the last task that produced it
C33_Claim ==
    ppc = "filter" =>
        /\ "resolve" \in called
              => Keys(merged.files) = Keys(Union(verifiedResults).files)
        /\ \A resolution \in Resolutions :
              resolution.kind \in {"fails", "unparseable"}
                => /\ Resolve(Union(verifiedResults), cfg.enableLogging, resolution)
                        = Union(verifiedResults)
                   /\ \A filename \in Paths :
                         Union(verifiedResults).files[filename]
                            = LastWrite(verifiedResults, filename)

(***************************************************************************)
(* Properties of orchestrate past the cache chain                           *)
(***************************************************************************)
AllTasksFailed == \A i \in DOMAIN workerResults : ~workerResults[i].success

\* the tasks whose result holds content for the path
Contributors(results, filename) ==
    {results[i].taskId : i \in {k \in DOMAIN results : results[k].files[filename] # NoFile}}

\* C32 (as claimed): the sources of every recorded conflict name every task
\* that produced content for the path of the conflict, the first contributor
\* included
C32_Claim ==
    ppc = "filter" =>
        \A i \in DOMAIN merged.conflicts :
            Contributors(verifiedResults, merged.conflicts[i].filename)
                \subseteq Range(merged.conflicts[i].sources)

\* the tasks that executeParallel ended with success = false
FailedTasks ==
    {workerResults[i].taskId : i \in {k \in DOMAIN workerResults : ~workerResults[k].success}}

\* C40 (as claimed): after merge, the verified result of a failed task holds
\* no file, and no merged file has the content such a result holds for its
\* path unless a task that succeeded produced the same
C40_Claim ==
    ppc = "filter" =>
        \A i \in DOMAIN verifiedResults :
            verifiedResults[i].taskId \in FailedTasks =>
                \A filename \in Paths :
                    /\ verifiedResults[i].files[filename] = NoFile
                    /\ merged.files[filename] # NoFile =>
                          \E j \in DOMAIN verifiedResults :
                              /\ verifiedResults[j].taskId \notin FailedTasks
                              /\ verifiedResults[j].files[filename] = merged.files[filename]

\* C12: when executeParallel has returned and every task of the request
\* ended with success = false, orchestrate returns the terminal failure
\* object, never a successful result.
C12_Claim ==
    (ppc = "returned" /\ finalResult.summary # "none" /\ workerResults # <<>> /\ AllTasksFailed)
       => ~finalResult.success

\* decompose was called and returned no plan
DecomposeFailed == "decompose" \in called /\ taskPlan = NoTaskPlan

\* C13: when decompose fails, orchestrate does not throw: it returns one
\* object with success = false, the error message as summary, no artifact
\* and no TaskResult; no task was executed and no cache tier was written.
C13_DecomposeFailure ==
    DecomposeFailed
      => /\ ppc = "returned"
         /\ ~finalResult.success
         /\ finalResult.summary = "Failed to parse task decomposition"
         /\ finalResult.files = EmptyFiles
         /\ finalResult.agentResults = <<>>
         /\ workerResults = <<>>
         /\ "task" \notin called
         /\ ~cacheSet

C13_Witness ==
    /\ DecomposeFailed
    /\ ppc = "returned"
    /\ ~finalResult.success
    /\ finalResult.summary = "Failed to parse task decomposition"

\* two tasks are named in one group of the plan
SameGroup(a, b) ==
    \E g \in DOMAIN taskPlan.parallelGroups :
        Includes(taskPlan.parallelGroups[g], a) /\ Includes(taskPlan.parallelGroups[g], b)

\* a task succeeded and another task of its group did not
PartialSuccess ==
    \E i, j \in DOMAIN workerResults :
        /\ workerResults[i].success
        /\ ~workerResults[j].success
        /\ SameGroup(workerResults[i].taskId, workerResults[j].taskId)

\* every artifact that a successful result hands to merge is in the merged
\* set with its content, unless its path is denied or in the conflict list
SuccessfulArtifactsMerged ==
    \A i \in DOMAIN verifiedResults :
        verifiedResults[i].success
          => \A filename \in Keys(verifiedResults[i].files) :
                \/ Forbidden(filename)
                \/ filename \in ConflictPaths(merged.conflicts)
                \/ merged.files[filename] = verifiedResults[i].files[filename]

\* C14: when a task of the plan succeeds and another task of the same group
\* times out or fails, orchestrate returns success = true and the artifacts
\* of the successful task are present in the merged ArtifactSet.
C14_Claim ==
    (ppc = "returned" /\ PartialSuccess)
       => finalResult.success /\ SuccessfulArtifactsMerged

(***************************************************************************)
(* Properties of decompose                                                  *)
(***************************************************************************)
PlanIds(pl) == {pl.subTasks[i].id : i \in DOMAIN pl.subTasks}

\* the positions (group, index) at which the groups name the id
Places(pl, id) ==
    {<<g, k>> \in (DOMAIN pl.parallelGroups) \X (1..Len(pl.subTasks) + 1) :
        k \in DOMAIN pl.parallelGroups[g] /\ pl.parallelGroups[g][k] = id}

GroupOf(pl, id) == (CHOOSE place \in Places(pl, id) : TRUE)[1]

PlanInvariant(pl) ==
    /\ \A g \in DOMAIN pl.parallelGroups :
          \A k \in DOMAIN pl.parallelGroups[g] : pl.parallelGroups[g][k] \in PlanIds(pl)
    /\ \A id \in PlanIds(pl) : Cardinality(Places(pl, id)) = 1
    /\ \A i \in DOMAIN pl.subTasks :
          \A d \in pl.subTasks[i].dependencies :
              /\ d \in PlanIds(pl)
              /\ GroupOf(pl, d) < GroupOf(pl, pl.subTasks[i].id)

\* C15: every plan that decompose returns keeps the plan invariant: the
\* groups name only ids of the task list, every task is in exactly one group,
\* every dependency names a known task and lies in a strictly earlier group;
\* a reply that breaks any of these makes decompose fail.
C15_Claim == taskPlan # NoTaskPlan => PlanInvariant(taskPlan)

(***************************************************************************)
(* Properties of verifyChain.  verdicts[i] tells how the verification of    *)
(* verifiedResults[i] went.                                                 *)
(***************************************************************************)

\* C16: when the review call or a fix call of the loop fails with a provider
\* error, the result that verification returns for the task carries exactly
\* the artifacts the task had before the loop, and is not tagged as verified.
C16_Claim ==
    \A i \in DOMAIN verdicts :
        (verdicts[i].review = "fails" \/ verdicts[i].fixError)
           => /\ verifiedResults[i].files = verdicts[i].before
              /\ ~verifiedResults[i].tagged

\* C17: when the self-healing loop gives up, the artifact set it produced
\* last is kept as the artifacts of the task, and the result is told apart
\* from one whose validation passed: it does not carry the tag of a verified
\* result.
C17_Claim ==
    \A i \in DOMAIN verdicts :
        verdicts[i].heal = "exhausted"
           => /\ verifiedResults[i].files = verdicts[i].last
              /\ ~verifiedResults[i].tagged

(***************************************************************************)
(* One unit of work and its generation call.  A unit is a task of the       *)
(* parallel executor (executeAgent raced against the task timer) or the     *)
(* single unit of executeFast.  The call goes through aiMandor.call, the    *)
(* gate in front of the Generation Service: it waits for a slot of the      *)
(* rate limiter, invokes the provider and gives the slot back when the      *)
(* invocation has ended.  unit[u] holds                                     *)
(*   pc        where the unit's own code stands                             *)
(*   quota     what checkQuota reported, cost what checkCostBudget reported *)
(*   race      for a task: whether Promise.race is still pending            *)
(*   admitted  slots the rate limiter granted to the unit                   *)
(*   released  slots given back                                             *)
(*   calls     invocations of the Generation Service                        *)
(*   res       the result the caller of the unit sees                       *)
(***************************************************************************)

Reports == {"ok", "exceeded"}

TimeoutMessage == "Agent timeout after 60s"

\* lines 812-846: the result of executeFast after the provider answered
FastSuccess ==
    [taskId |-> "fast-single", success |-> TRUE, output |-> <<"", "result">>,
     files |-> "extracted"]

\* lines 571-643: a tier of the cache answered, executeFast returns its entry
FastCached ==
    [taskId |-> "fast-single", success |-> TRUE, output |-> <<"", "cached">>,
     files |-> "cached"]

\* lines 849-870: the catch of executeFast
FastCatch(msg) ==
    [taskId |-> "fast-single", success |-> FALSE, output |-> <<"", msg>>,
     files |-> "empty"]

\* the caller of a task sees the first settlement of Promise.race only
\* (lines 957-961); a later one is dropped
SettleRace(u, r) ==
    IF unit[u].race = "pending"
    THEN [unit[u] EXCEPT !.race = "settled", !.res = r]
    ELSE unit[u]

\* executeAgent rejects (a throw outside its try, lines 1003-1012): the race
\* rejects and the catch of the task wrapper makes the result; executeFast
\* catches the throw itself
Thrown(u, msg) ==
    IF IsTask(u)
    THEN [SettleRace(u, TaskCatch(u, msg).res) EXCEPT !.pc = "done"]
    ELSE [unit[u] EXCEPT !.pc = "done", !.res = FastCatch(msg)]

\* an error inside the try of executeAgent (lines 1126-1138) or of executeFast
Caught(u, msg) ==
    IF IsTask(u)
    THEN [SettleRace(u, AgentCatch(u, msg)) EXCEPT !.pc = "done"]
    ELSE [unit[u] EXCEPT !.pc = "done", !.res = FastCatch(msg)]

\* the unit's code ran to its return statement
Returned(u) ==
    IF IsTask(u)
    THEN [SettleRace(u, AgentSuccess(u)) EXCEPT !.pc = "done"]
    ELSE [unit[u] EXCEPT !.pc = "done", !.res = FastSuccess]

\* (mutant: a quota that is used up does not stop the unit)
QuotaIgnored(u, report) == [unit[u] EXCEPT !.quota = report, !.pc = "cost"]

\* lines 1003-1006 and 665-668
QuotaChecked(u, report) ==
    IF report = "exceeded"
    THEN [Thrown(u, "Quota exceeded") EXCEPT !.quota = report]
    ELSE [unit[u] EXCEPT !.quota = report, !.pc = "cost"]

\* lines 1009-1012 and 671-674
CostChecked(u, report) ==
    IF report = "exceeded"
    THEN [Thrown(u, "Daily cost budget exceeded") EXCEPT !.cost = report]
    ELSE [unit[u] EXCEPT !.cost = report, !.pc = "gate"]

\* (mutant: the timer of a task cancels the call that is in flight)
CancelledByTimeout(pc) == "done"

\* lines 953-961: the timer rejects the race and nothing else; executeAgent
\* and the call it awaits go on
AfterTimeout(pc) == pc

InitUnits ==
    /\ RLIdle /\ ExIdle /\ OrIdle /\ PlIdle /\ DcIdle /\ AuxIdle
    /\ unit = [u \in Units |->
                 [IdleUnit EXCEPT !.pc = IF IsTask(u) THEN "quota" ELSE "cache",
                                  !.race = IF IsTask(u) THEN "pending" ELSE "none"]]

\* lines 571-643 of executeFast: the cache tiers are asked first; a hit is
\* returned before any quota is looked at
FastCacheCheck(u) ==
    /\ unit[u].pc = "cache"
    /\ \E hit \in BOOLEAN :
         unit' = [unit EXCEPT ![u] =
                    IF hit THEN [@ EXCEPT !.pc = "done", !.res = FastCached]
                           ELSE [@ EXCEPT !.pc = "quota"]]
    /\ UNCHANGED <<rlVars, exVars, orVars, plVars, dcVars, auxVars>>

CheckQuota(u) ==
    /\ unit[u].pc = "quota"
    /\ \E report \in Reports : unit' = [unit EXCEPT ![u] = QuotaChecked(u, report)]
    /\ UNCHANGED <<rlVars, exVars, orVars, plVars, dcVars, auxVars>>

CheckCostBudget(u) ==
    /\ unit[u].pc = "cost"
    /\ \E report \in Reports : unit' = [unit EXCEPT ![u] = CostChecked(u, report)]
    /\ UNCHANGED <<rlVars, exVars, orVars, plVars, dcVars, auxVars>>

\* waitForSlot returned: the rate limiter admitted a call for the provider
GateAdmits(u) ==
    /\ unit[u].pc = "gate"
    /\ unit' = [unit EXCEPT ![u].pc = "admitted", ![u].admitted = @ + 1]
    /\ UNCHANGED <<rlVars, exVars, orVars, plVars, dcVars, auxVars>>

\* waitForSlot gave up: the gate throws and the unit's catch makes the result
GateTimesOut(u) ==
    /\ unit[u].pc = "gate"
    /\ unit' = [unit EXCEPT ![u] = Caught(u, "Rate limit timeout")]
    /\ UNCHANGED <<rlVars, exVars, orVars, plVars, dcVars, auxVars>>

\* the gate invokes the Generation Service
Invoke(u) ==
    /\ unit[u].pc = "admitted"
    /\ unit' = [unit EXCEPT ![u].pc = "call", ![u].calls = @ + 1]
    /\ UNCHANGED <<rlVars, exVars, orVars, plVars, dcVars, auxVars>>

\* the provider answered: the gate gives the slot back and the unit's code
\* runs on; the steps of executeFast after the call may still throw
ProviderAnswers(u) ==
    /\ unit[u].pc = "call"
    /\ \E later \in {"fine"} \cup (IF IsTask(u) THEN {} ELSE {"final verification failed"}) :
         unit' = [unit EXCEPT ![u] =
                    [(IF later = "fine" THEN Returned(u) ELSE Caught(u, later))
                       EXCEPT !.released = @ + 1]]
    /\ UNCHANGED <<rlVars, exVars, orVars, plVars, dcVars, auxVars>>

\* the provider failed or ran into the gate's own timeout: the gate gives the
\* slot back and throws
ProviderFails(u) ==
    /\ unit[u].pc = "call"
    /\ unit' = [unit EXCEPT ![u] =
                  [Caught(u, "provider error") EXCEPT !.released = @ + 1]]
    /\ UNCHANGED <<rlVars, exVars, orVars, plVars, dcVars, auxVars>>

\* lines 953-973: the timer of a task fires while the race is pending
TimerFires(u) ==
    /\ IsTask(u)
    /\ unit[u].race = "pending"
    /\ unit' = [unit EXCEPT ![u] =
                  [SettleRace(u, TaskCatch(u, TimeoutMessage).res)
                     EXCEPT !.pc = AfterTimeout(unit[u].pc)]]
    /\ UNCHANGED <<rlVars, exVars, orVars, plVars, dcVars, auxVars>>

NextUnits ==
    \E u \in Units :
        \/ FastCacheCheck(u)
        \/ CheckQuota(u)
        \/ CheckCostBudget(u)
        \/ GateAdmits(u)
        \/ GateTimesOut(u)
        \/ Invoke(u)
        \/ ProviderAnswers(u)
        \/ ProviderFails(u)
        \/ TimerFires(u)

SpecUnits == InitUnits /\ [][NextUnits]_vars

(***************************************************************************)
(* Properties of the generation call of a unit                              *)
(***************************************************************************)

Tasks == { u \in Units : IsTask(u) }

\* the task's timer fired first: its result is the failure of the timeout
TimedOut(u) ==
    /\ unit[u].race = "settled"
    /\ unit[u].res.output = <<"Error: ", TimeoutMessage>>

C19_QuotaGate ==
    \A u \in Units :
        /\ unit[u].calls > 0 \/ unit[u].admitted > 0
              => unit[u].quota = "ok" /\ unit[u].cost = "ok"
        /\ unit[u].quota = "exceeded" \/ unit[u].cost = "exceeded"
              => /\ unit[u].calls = 0
                 /\ unit[u].pc = "done"
                 /\ unit[u].res # NoUnitResult
                 /\ ~unit[u].res.success

\* a task ended on a used-up quota and the fast path on a used-up budget
C19_Witness ==
    /\ \E u \in Tasks :
          /\ unit[u].quota = "exceeded"
          /\ unit[u].res = TaskCatch(u, "Quota exceeded").res
    /\ unit["fast-single"].cost = "exceeded"
    /\ unit["fast-single"].res = FastCatch("Daily cost budget exceeded")

(***************************************************************************)
(* The durable tier of the cache: findCachedResponse over the job store.    *)
(* Time is counted in hours.  clock is the current instant, zone the time   *)
(* zone of the process, jobs the records of the store.  A record holds the  *)
(* instant it was completed, its status, the token set of its request text  *)
(* and whether it has an output.  lookup is the last call of                *)
(* findCachedResponse: the instant of the call, the request and the answer. *)
(***************************************************************************)

\* maxAgeHours (72 at every call site), scaled
MaxAgeHours == 2

MaxClock == 4

\* the ids of the records the store comes to hold
JobIds == {1, 2}

\* .limit(100) of the query, scaled
QueryLimit == 2

\* the instant at which the clocks of zone "DST" are set back by one hour
FallBackAt == 2

\* threshold = 0.7, as a fraction
Threshold == <<7, 10>>

Zones == {"UTC", "DST"}

\* token sets of request texts: equal ones, similar ones (3/4) and unrelated
TokenSets == { {"todo", "app", "react"}, {"todo", "app", "react", "dark"}, {"blog"} }

\* hours by which the local time of the zone is ahead of winter time
Offset(z, t) == IF z = "DST" /\ t < FallBackAt THEN 1 ELSE 0

\* Date.getHours and the other local getters: the wall-clock reading of an instant
LocalTime(z, t) == t + Offset(z, t)

\* Date.setHours: the instant that has the wall-clock reading w; a reading
\* that occurs twice is taken as its first occurrence
InstantOf(z, w) ==
    LET T == { t \in (w - 1)..w : LocalTime(z, t) = w }
    IN  CHOOSE t \in T : \A u \in T : t <= u

\* lines 93-94: cutoffDate.setHours(cutoffDate.getHours() - maxAgeHours)
CutoffDate(z, t, maxAgeHours) == InstantOf(z, LocalTime(z, t) - maxAgeHours)

\* lines 97-103: the filter of the store query
Selected(job, cutoff) ==
    /\ job.status = "completed"
    /\ job.completedAt >= cutoff
    /\ job.hasOutput

\* the orders in which the store may hand back a set of rows: newest first
\* (line 103), rows of the same instant in any order
NewestFirst(rows) ==
    { s \in [1..Cardinality(rows) -> rows] :
        /\ \A r \in rows : \E i \in DOMAIN s : s[i] = r
        /\ \A i, j \in DOMAIN s : i < j => s[i].completedAt >= s[j].completedAt }

\* line 104
Limit(s, n) == SubSeq(s, 1, IF Len(s) < n THEN Len(s) ELSE n)

\* lines 64-71, as the fraction <<|A n B|, |A u B|>>; <<0, 1>> for an empty set
JaccardSimilarity(setA, setB) ==
    IF setA = {} \/ setB = {} THEN <<0, 1>>
    ELSE <<Cardinality(setA \cap setB), Cardinality(setA \cup setB)>>

AtLeast(x, y) == x[1] * y[2] >= y[1] * x[2]

\* (mutant: a later row with the same score replaces the match)
NotLess(x, y) == x[1] * y[2] >= y[1] * x[2]

\* line 121: similarity > bestScore
Greater(x, y) == x[1] * y[2] > y[1] * x[2]

\* lines 115-133: the loop over the rows; best is the match so far
RECURSIVE BestMatch(_, _, _, _, _)
BestMatch(rows, i, inputTokens, best, bestScore) ==
    IF i > Len(rows) THEN best
    ELSE LET job == rows[i]
             similarity == JaccardSimilarity(inputTokens, job.tokens)
         IN  IF job.tokens # {} /\ AtLeast(similarity, Threshold)
                               /\ Greater(similarity, bestScore)
             THEN BestMatch(rows, i + 1, inputTokens, job, similarity)
             ELSE BestMatch(rows, i + 1, inputTokens, best, bestScore)

\* lines 91-144: what findCachedResponse returns for the rows the store
\* handed back (NoJob stands for null)
FoundIn(rows, inputTokens) == BestMatch(rows, 1, inputTokens, NoJob, <<0, 1>>)

InitDurable ==
    /\ RLIdle /\ ExIdle /\ OrIdle /\ PlIdle /\ UnIdle /\ AuxIdle
    /\ clock = 0
    /\ zone \in Zones
    /\ jobs = {}
    /\ lookup = NoLookup

ClockTick ==
    /\ clock < MaxClock
    /\ clock' = clock + 1
    /\ UNCHANGED <<rlVars, exVars, orVars, plVars, unVars, auxVars, zone, jobs, lookup>>

\* How a job can end (route.ts, processJob, lines 627-737):
\*   "succeeded"  the orchestration returned a result with success = true
\*   "failure"    it returned the terminal failure object (success = false)
\*   "threw"      processJob caught an exception
\*   "legacy"     a completed row without output, written by other code
Endings == {"succeeded", "failure", "threw", "legacy"}

\* lines 676-682 and 725-731 of route.ts: the row that processJob leaves.
\* executePlanningMode (876-882) and executeFastMode (819-820) hand on the
\* summary and the files of the result whatever its success flag says, and
\* the row is marked completed with that summary as its output.
JobRow(id, ending, tokens, t) ==
    [id |-> id, completedAt |-> t, tokens |-> tokens, origin |-> ending,
     status |-> IF ending = "threw" THEN "failed" ELSE "completed",
     hasOutput |-> ending \in {"succeeded", "failure"}]

\* a job of the queue ends now; its row is in the store
JobEnds ==
    /\ Cardinality(jobs) < Cardinality(JobIds)
    /\ \E ending \in Endings, tokens \in TokenSets :
         jobs' = jobs \cup { JobRow(Cardinality(jobs) + 1, ending, tokens, clock) }
    /\ UNCHANGED <<rlVars, exVars, orVars, plVars, unVars, auxVars, clock, zone, lookup>>

\* lines 84-144: one call of findCachedResponse
FindCachedResponse ==
    /\ \E prompt \in TokenSets, storeFails \in BOOLEAN :
         LET cutoff == CutoffDate(zone, clock, MaxAgeHours)
             rows   == { j \in jobs : Selected(j, cutoff) }
         IN  \E s \in NewestFirst(rows) :
                LET data  == IF storeFails THEN <<>> ELSE Limit(s, QueryLimit)
                    found == FoundIn(data, prompt)
                IN  lookup' = [state |-> IF found = NoJob THEN "miss" ELSE "hit",
                               at |-> clock, prompt |-> prompt, rows |-> data,
                               hit |-> found]
    /\ UNCHANGED <<rlVars, exVars, orVars, plVars, unVars, auxVars, clock, zone, jobs>>

NextDurable ==
    \/ ClockTick
    \/ JobEnds
    \/ FindCachedResponse

SpecDurable == InitDurable /\ [][NextDurable]_vars

(***************************************************************************)
(* Properties of the durable tier                                           *)
(***************************************************************************)

\* C20: a record that findCachedResponse returns was completed no more than
\* maxAgeHours before the instant of the lookup, however similar its request
\* text is to the request.
C20_Claim ==
    lookup.state = "hit" => lookup.hit.completedAt >= lookup.at - MaxAgeHours

\* C23: a record that findCachedResponse returns as a hit was not written for
\* a request whose orchestration ended in the terminal failure object.
C23_Claim == lookup.state = "hit" => lookup.hit.origin # "failure"

\* the score of a row against the prompt of the lookup, as a fraction
ScoreOf(row) ==
    IF lookup.prompt = {} \/ row.tokens = {} THEN <<0, 1>>
    ELSE <<Cardinality(lookup.prompt \cap row.tokens),
           Cardinality(lookup.prompt \cup row.tokens)>>

\* the rows handed back that reach the threshold
Candidates ==
    {i \in DOMAIN lookup.rows :
        ScoreOf(lookup.rows[i])[1] * Threshold[2] >= Threshold[1] * ScoreOf(lookup.rows[i])[2]}

\* C34: of the rows the store handed back, findCachedResponse returns one
\* that reaches the threshold and that no other row beats in similarity, the
\* most recently completed among those of the same similarity; it returns
\* no hit exactly when no row reaches the threshold, which includes the case
\* of a failed query.
C34_Selection ==
    lookup.state # "none" =>
        /\ lookup.state = "miss" <=> Candidates = {}
        /\ lookup.state = "hit" =>
              \E i \in Candidates :
                  /\ lookup.hit = lookup.rows[i]
                  /\ \A j \in Candidates :
                        LET x == ScoreOf(lookup.rows[i])
                            y == ScoreOf(lookup.rows[j])
                        IN  /\ x[1] * y[2] >= y[1] * x[2]
                            /\ x[1] * y[2] = y[1] * x[2]
                                  => lookup.rows[i].completedAt >= lookup.rows[j].completedAt

\* two rows reach the threshold and the older one, which matches better, is
\* returned
C34_Witness ==
    /\ lookup.state = "hit"
    /\ Cardinality(Candidates) = 2
    /\ lookup.hit = lookup.rows[2]
    /\ lookup.rows[1].completedAt > lookup.rows[2].completedAt

\* two rows of the same similarity: the more recent one is returned
C34_TieWitness ==
    /\ lookup.state = "hit"
    /\ Cardinality(Candidates) = 2
    /\ lookup.rows[1].tokens = lookup.rows[2].tokens
    /\ lookup.rows[1].completedAt > lookup.rows[2].completedAt
    /\ lookup.hit = lookup.rows[1]

(***************************************************************************)
(* jaccardSimilarity (persistent-cache.ts, lines 63-71) on its own.  A      *)
(* JavaScript Set keeps its elements in the order of insertion, so an       *)
(* argument is a sequence without repetitions.  The quotient the function   *)
(* returns is kept as the fraction <<numerator, denominator>>.              *)
(***************************************************************************)

Words == {"todo", "app", "dark"}

\* the Sets over Words, in every order of insertion
InsertionOrders ==
    { s \in UNION { [1..n -> Words] : n \in 0..Cardinality(Words) } :
        \A i, j \in DOMAIN s : i # j => s[i] # s[j] }

Elements(s) == { s[i] : i \in DOMAIN s }

\* line 66: [...setA].filter(x => setB.has(x)).length
Intersection(a, b) == Len(SelectSeq(a, LAMBDA x : x \in Elements(b)))

\* (mutant: the union counts the common tokens twice)
UnionWithRepeats(a, b) == Len(a) + Len(b)

\* line 67: new Set([...setA, ...setB]).size
UnionSize(a, b) == Cardinality(Elements(a \o b))

\* lines 63-70
JaccardOf(a, b) ==
    IF Len(a) = 0 \/ Len(b) = 0 THEN <<0, 1>>
    ELSE <<Intersection(a, b), UnionSize(a, b)>>

\* two fractions are the same number
SameNumber(x, y) == x[1] * y[2] = y[1] * x[2]

InitJaccard ==
    /\ RLIdle /\ ExIdle /\ OrIdle /\ PlIdle /\ UnIdle /\ DcIdle /\ CuIdle /\ WsIdle /\ HlIdle /\ TrIdle
    /\ argA \in InsertionOrders
    /\ argB \in InsertionOrders
    /\ jaccard = NoSimilarity

\* one evaluation jaccardSimilarity(argA, argB)
Evaluate ==
    /\ jaccard = NoSimilarity
    /\ jaccard' = JaccardOf(argA, argB)
    /\ UNCHANGED <<rlVars, exVars, orVars, plVars, unVars, dcVars, cuVars, wsVars, hlVars, trVars, argA, argB>>

NextJaccard == Evaluate

SpecJaccard == InitJaccard /\ [][NextJaccard]_vars

\* C21: the value of jaccardSimilarity(A, B) is that of jaccardSimilarity(B, A)
\* and of every evaluation on the same two sets with the tokens inserted in
\* another order; it is 0 when the sets are disjoint or one of them is empty,
\* 1 when they are the same non-empty set, and |A n B| / |A u B| otherwise.
C21_Jaccard ==
    jaccard # NoSimilarity =>
        LET A == Elements(argA)
            B == Elements(argB)
        IN  /\ SameNumber(jaccard, JaccardOf(argB, argA))
            /\ \A a, b \in InsertionOrders :
                  Elements(a) = A /\ Elements(b) = B
                     => SameNumber(jaccard, JaccardOf(a, b))
            /\ (A = {} \/ B = {} \/ A \cap B = {}) => SameNumber(jaccard, <<0, 1>>)
            /\ (A = B /\ A # {}) => SameNumber(jaccard, <<1, 1>>)
            /\ (A # {} /\ B # {})
                  => /\ jaccard[2] > 0
                     /\ SameNumber(jaccard, <<Cardinality(A \cap B), Cardinality(A \cup B)>>)

\* the function was evaluated on two overlapping, different sets whose common
\* tokens were inserted in different orders
C21_Witness ==
    /\ jaccard = <<2, 3>>
    /\ argA = <<"todo", "app">>
    /\ argB = <<"dark", "app", "todo">>

(***************************************************************************)
(* The junk filter of orchestrate (lines 303-321) and of executeFast        *)
(* (lines 753-764) on its own, against file names and contents of every     *)
(* kind the filter tells apart.                                             *)
(***************************************************************************)

\* a junk name in a directory, a junk name in capitals, a directory that
\* looks like a junk name, and an ordinary file
FilterPaths ==
    { <<"src/", "file1.json">>, <<"DATA12.JSON">>, <<"file1.json/", "notes.md">>,
      <<"src/", "App.tsx">> }

FilterContents == {"", " ", "...", " // TODO ", "/* TODO */", "a", " a "}

InitFilter ==
    /\ RLIdle /\ ExIdle /\ OrIdle /\ PlIdle /\ UnIdle /\ DcIdle /\ JcIdle /\ WsIdle /\ HlIdle /\ TrIdle
    /\ dirty \in [FilterPaths -> FilterContents \cup {NoFile}]
    /\ cleaned = <<>>

\* orchestrate, lines 303-321: merged.files is replaced by the cleaned files
FilterMerged ==
    /\ cleaned = <<>>
    /\ cleaned' = [by |-> "orchestrate", files |-> CleanedFiles(dirty)]
    /\ UNCHANGED <<rlVars, exVars, orVars, plVars, unVars, dcVars, jcVars, wsVars, hlVars, trVars, dirty>>

\* executeFast, lines 753-764: the extracted files are replaced by the
\* cleaned files
FilterExtracted ==
    /\ cleaned = <<>>
    /\ cleaned' = [by |-> "executeFast", files |-> CleanedFiles(dirty)]
    /\ UNCHANGED <<rlVars, exVars, orVars, plVars, unVars, dcVars, jcVars, wsVars, hlVars, trVars, dirty>>

NextFilter == FilterMerged \/ FilterExtracted

SpecFilter == InitFilter /\ [][NextFilter]_vars

\* what the invariant of the ArtifactSet rules out, said without the filter
EmptyOrWhitespace(content) == content \in {"", " "}

PlaceholderOnly(content) == content \in {"...", " // TODO ", "/* TODO */"}

JunkFile(path) == path \in { <<"src/", "file1.json">>, <<"DATA12.JSON">> }

\* C26: in the files the cleanup pass of orchestrate or executeFast leaves, no
\* path has empty or whitespace-only content, none has placeholder-only
\* content and no file name matches the junk pattern; every other artifact it
\* was given is kept with its content unchanged, and nothing is added.
C26_Cleanup ==
    cleaned # <<>> =>
        \A p \in FilterPaths :
            LET before == dirty[p]
                after  == cleaned.files[p]
                junk   == EmptyOrWhitespace(before) \/ PlaceholderOnly(before) \/ JunkFile(p)
            IN  /\ after # NoFile
                   => ~EmptyOrWhitespace(after) /\ ~PlaceholderOnly(after) /\ ~JunkFile(p)
                /\ (before # NoFile /\ ~junk) => after = before
                /\ after # NoFile => after = before

\* the filter dropped a junk name in capitals, a padded placeholder and a
\* blank file, and kept a padded ordinary content as it was
C26_Witness ==
    /\ cleaned # <<>>
    /\ dirty[<<"DATA12.JSON">>] = "a" /\ cleaned.files[<<"DATA12.JSON">>] = NoFile
    /\ dirty[<<"src/", "App.tsx">>] = " // TODO " /\ cleaned.files[<<"src/", "App.tsx">>] = NoFile
    /\ dirty[<<"src/", "file1.json">>] = " " /\ cleaned.files[<<"src/", "file1.json">>] = NoFile
    /\ dirty[<<"file1.json/", "notes.md">>] = " a "
    /\ cleaned.files[<<"file1.json/", "notes.md">>] = " a "

(***************************************************************************)
(* waitForSlot (distributed-rate-limiter.ts 275-294)                       *)
(*                                                                         *)
(* Time is counted in ticks.  checkLimit is seen through what it returns:  *)
(* allowed, or denied with a resetMs that may be zero or negative (line    *)
(* 169 reads the clock again after the window test of line 155).           *)
(***************************************************************************)
MaxTimeout == 3
PollCapTicks == 2
MaxReset == 3

\* the clock is followed until every call has timed out
MaxWaitNow == MaxTimeout + 1

Min(a, b) == IF a <= b THEN a ELSE b

\* what checkLimit returns to a poll
PollResults ==
    {[allowed |-> TRUE, resetMs |-> WindowTicks]}
        \cup {[allowed |-> FALSE, resetMs |-> r] : r \in -1..MaxReset}

\* (mutant: the pause is not capped)
WaitTimeUncapped(resetMs, remaining) == Min(resetMs, remaining)

\* line 291: Math.min(result.resetMs, 5000, timeoutMs - (Date.now() - startTime))
WaitTime(resetMs, remaining) == Min(resetMs, Min(PollCapTicks, remaining))

\* setTimeout with a delay that is not positive fires as soon as it can
TimerDelay(ms) == Max(0, ms)

\* line 276: the call has read the clock into startTime
InitWait ==
    /\ RLIdle /\ ExIdle /\ OrIdle /\ PlIdle /\ UnIdle /\ DcIdle /\ JcIdle /\ CuIdle /\ HlIdle /\ TrIdle
    /\ wpc = "poll"
    /\ wnow = 0
    /\ startTime = 0
    /\ timeoutMs \in 0..MaxTimeout
    /\ polled = NotPolled
    /\ waitTime = 0
    /\ wake = 0
    /\ admissions = 0

WaitRest == <<rlVars, exVars, orVars, plVars, unVars, dcVars, jcVars, cuVars, hlVars, trVars>>

\* lines 279-283: checkLimit answers allowed; waitForSlot returns
PollAdmitted ==
    /\ wpc = "poll"
    /\ \E r \in PollResults :
          /\ r.allowed
          /\ polled' = r
    /\ admissions' = admissions + 1
    /\ wpc' = "returned"
    /\ UNCHANGED <<WaitRest, wnow, startTime, timeoutMs, waitTime, wake>>

\* lines 279-281: checkLimit answers denied
PollDenied ==
    /\ wpc = "poll"
    /\ \E r \in PollResults :
          /\ ~r.allowed
          /\ polled' = r
    /\ wpc' = "denied"
    /\ UNCHANGED <<WaitRest, wnow, startTime, timeoutMs, waitTime, wake, admissions>>

\* lines 286-288: past the timeout the call throws
CheckTimeout ==
    /\ wpc = "denied"
    /\ wpc' = IF wnow - startTime > timeoutMs THEN "thrown" ELSE "backoff"
    /\ UNCHANGED <<WaitRest, wnow, startTime, timeoutMs, polled, waitTime, wake, admissions>>

\* lines 291-292: the pause is computed and the timer is set
StartPause ==
    /\ wpc = "backoff"
    /\ waitTime' = WaitTime(polled.resetMs, timeoutMs - (wnow - startTime))
    /\ wake' = wnow + TimerDelay(waitTime')
    /\ wpc' = "sleep"
    /\ UNCHANGED <<WaitRest, wnow, startTime, timeoutMs, polled, admissions>>

\* line 292: the timer fires, not before it is due; the loop polls again
TimerElapsed ==
    /\ wpc = "sleep"
    /\ wnow >= wake
    /\ wpc' = "poll"
    /\ UNCHANGED <<WaitRest, wnow, startTime, timeoutMs, polled, waitTime, wake, admissions>>

\* the clock advances while the call is pending
Elapse ==
    /\ wpc \in {"poll", "denied", "backoff", "sleep"}
    /\ wnow < MaxWaitNow
    /\ wnow' = wnow + 1
    /\ UNCHANGED <<WaitRest, wpc, startTime, timeoutMs, polled, waitTime, wake, admissions>>

NextWait ==
    \/ PollAdmitted
    \/ PollDenied
    \/ CheckTimeout
    \/ StartPause
    \/ TimerElapsed
    \/ Elapse

SpecWait == InitWait /\ [][NextWait]_vars

\* Every awaited checkLimit answers (it falls back to the local counters
\* when the store throws), the event loop runs the continuation of a
\* settled promise and a due timer, and the clock advances.
SpecWaitFair ==
    /\ SpecWait
    /\ WF_vars(PollAdmitted \/ PollDenied)
    /\ WF_vars(CheckTimeout)
    /\ WF_vars(StartPause)
    /\ WF_vars(TimerElapsed)
    /\ WF_vars(Elapse)

\* C28: waitForSlot always terminates.  It returns only on a poll that was
\* allowed, the only admission it consumed; it throws only after more than
\* timeoutMs has elapsed and no poll was admitted; the pause before the next
\* poll is the least of resetMs, the cap of 5 s and the rest of the timeout,
\* and the next poll does not come before the pause is over; and the call
\* eventually returns or throws.
C28_WaitForSlot ==
    /\ [](/\ wpc = "returned" => polled.allowed /\ admissions = 1
          /\ wpc = "thrown" => /\ ~polled.allowed
                                /\ admissions = 0
                                /\ wnow - startTime > timeoutMs
          /\ wpc = "sleep" =>
                LET remaining == timeoutMs - ((wake - TimerDelay(waitTime)) - startTime)
                IN  /\ waitTime <= polled.resetMs
                    /\ waitTime <= PollCapTicks
                    /\ waitTime <= remaining
                    /\ waitTime \in {polled.resetMs, PollCapTicks, remaining})
    /\ [][wpc = "sleep" /\ wpc' = "poll" => wnow >= wake]_vars
    /\ <>(wpc \in {"returned", "thrown"})

\* a call with the longest timeout was denied until it threw; its last pause
\* was cut to the rest of the timeout
C28_Witness ==
    /\ wpc = "thrown"
    /\ timeoutMs = MaxTimeout
    /\ polled.resetMs = MaxReset
    /\ waitTime = 1
    /\ wake = startTime + timeoutMs

(***************************************************************************)
(* SpecShared: two requests of different users on the exported singleton   *)
(* (multi-agent.ts 1672).  Each request is orchestrate or executeFast; the *)
(* steps are the stretches of code between two awaits.                     *)
(***************************************************************************)

SharedRest == <<rlVars, exVars, orVars, plVars, unVars, dcVars, jcVars, cuVars, wsVars, hlVars>>

Kinds == {"orchestrate", "executeFast"}

\* TraceLogger.addStep: pushes a step on an active trace, does nothing when
\* the trace is not in activeTraces
AddStep(st, active, t) ==
    IF t \in active THEN [st EXCEPT ![t] = @ + 1] ELSE st

\* the synchronous part of TraceLogger.endTrace(t, status) called by request
\* r when the steps are st: without a trace it returns; else it adds the
\* completion step and awaits the update of the stored row
EndTraceBegin(r, st, t, status) ==
    /\ steps' = AddStep(st, activeTraces, t)
    /\ endings' = IF t \in activeTraces
                  THEN endings \cup {[by |-> r, trace |-> t, status |-> status]}
                  ELSE endings
    /\ sreq' = [sreq EXCEPT ![r] = [@ EXCEPT !.pc = "end_await",
                                             !.ending = t,
                                             !.found = (t \in activeTraces),
                                             !.status = status]]

\* the call is made: orchestrate stores its userId in the instance,
\* executeFast does not
Enter(r) ==
    /\ sreq[r].pc = "idle"
    /\ \E k \in Kinds :
          /\ sreq' = [sreq EXCEPT ![r] = [@ EXCEPT !.pc = "starting", !.kind = k]]
          /\ currentUserId' = IF k = "orchestrate" THEN UserOf(r) ELSE currentUserId
    /\ UNCHANGED <<SharedRest, currentTraceId, activeTraces, steps, aiCalls, endings>>

\* startTrace up to its await: the trace is registered with its start step
BeginTrace(r) ==
    /\ sreq[r].pc = "starting"
    /\ activeTraces' = activeTraces \cup {TraceOf(r)}
    /\ steps' = [steps EXCEPT ![TraceOf(r)] = 1]
    /\ sreq' = [sreq EXCEPT ![r].pc = "started"]
    /\ UNCHANGED <<SharedRest, currentUserId, currentTraceId, aiCalls, endings>>

\* startTrace has returned: the id is stored in the instance for the catch
StoreTraceId(r) ==
    /\ sreq[r].pc = "started"
    /\ currentTraceId' = TraceOf(r)
    /\ sreq' = [sreq EXCEPT ![r].pc = "cache"]
    /\ UNCHANGED <<SharedRest, currentUserId, activeTraces, steps, aiCalls, endings>>

\* a cache tier answers: hit step, endTrace of the request's own trace
CacheHit(r) ==
    /\ sreq[r].pc = "cache"
    /\ EndTraceBegin(r, AddStep(steps, activeTraces, TraceOf(r)), TraceOf(r), "success")
    /\ UNCHANGED <<SharedRest, currentUserId, currentTraceId, activeTraces, aiCalls>>

\* no cache tier answers: miss step, the request goes on to generation
CacheMiss(r) ==
    /\ sreq[r].pc = "cache"
    /\ steps' = AddStep(steps, activeTraces, TraceOf(r))
    /\ sreq' = [sreq EXCEPT ![r].pc = "ai"]
    /\ UNCHANGED <<SharedRest, currentUserId, currentTraceId, activeTraces, aiCalls, endings>>

\* aiMandor.call({..., userId: this.currentUserId})
AiCall(r) ==
    /\ sreq[r].pc = "ai"
    /\ aiCalls' = aiCalls \cup {[req |-> r, userId |-> currentUserId]}
    /\ sreq' = [sreq EXCEPT ![r].pc = "finish"]
    /\ UNCHANGED <<SharedRest, currentUserId, currentTraceId, activeTraces, steps, endings>>

\* the run succeeded: cache-save step and endTrace(traceId, 'success')
Finish(r) ==
    /\ sreq[r].pc = "finish"
    /\ EndTraceBegin(r, AddStep(steps, activeTraces, TraceOf(r)), TraceOf(r), "success")
    /\ UNCHANGED <<SharedRest, currentUserId, currentTraceId, activeTraces, aiCalls>>

\* an awaited call inside the try block throws: the catch ends the trace
\* whose id is in the instance
Throw(r) ==
    /\ sreq[r].pc \in {"cache", "ai", "finish"}
    /\ EndTraceBegin(r, steps, currentTraceId, "error")
    /\ UNCHANGED <<SharedRest, currentUserId, currentTraceId, activeTraces, aiCalls>>

\* endTrace after its await: the trace leaves activeTraces; the request returns
EndTraceFinish(r) ==
    /\ sreq[r].pc = "end_await"
    /\ activeTraces' = IF sreq[r].found THEN activeTraces \ {sreq[r].ending} ELSE activeTraces
    /\ sreq' = [sreq EXCEPT ![r].pc = "returned"]
    /\ UNCHANGED <<SharedRest, currentUserId, currentTraceId, steps, aiCalls, endings>>

InitShared ==
    /\ RLIdle /\ ExIdle /\ OrIdle /\ PlIdle /\ UnIdle /\ DcIdle
    /\ JcIdle /\ CuIdle /\ WsIdle /\ HlIdle /\ TrIdle

NextShared ==
    \E r \in SharedRequests :
        \/ Enter(r)
        \/ BeginTrace(r)
        \/ StoreTraceId(r)
        \/ CacheHit(r)
        \/ CacheMiss(r)
        \/ AiCall(r)
        \/ Finish(r)
        \/ Throw(r)
        \/ EndTraceFinish(r)

SpecShared == InitShared /\ [][NextShared]_vars

\* C38 (as claimed): every Generation Service call of a request carries the
\* userId of that request, and the catch of a request ends no trace but the
\* request's own
C38_Claim ==
    /\ \A c \in aiCalls : c.userId = UserOf(c.req)
    /\ \A r \in SharedRequests :
          (sreq[r].pc \in {"end_await", "returned"} /\ sreq[r].status = "error")
              => sreq[r].ending = TraceOf(r)

\* the traces that were started
Started == {TraceOf(r) : r \in {q \in SharedRequests : sreq[q].pc \notin {"idle", "starting"}}}

\* C39 (as claimed): once every request has returned, no trace is active and
\* every trace that was started was ended by exactly one endTrace; a step
\* added to a trace that has ended changes no trace
C39_Claim ==
    /\ []((\A r \in SharedRequests : sreq[r].pc \in {"idle", "returned"}) =>
             /\ activeTraces = {}
             /\ \A t \in Started : Cardinality({e \in endings : e.trace = t}) = 1)
    /\ [][\A t \in TraceIds : (t \notin activeTraces /\ t \notin activeTraces') => steps'[t] = steps[t]]_vars

====
